---- MODULE Spec2Model ----
(***************************************************************************)
(* WellDiary OCR scripts (src/server/*.py): the command-line runs of the   *)
(* six scripts, the request handling of the two HTTP servers, the variant  *)
(* x orientation sweep of trocr.py, the process pool of optimized_trocr.py,*)
(* the configuration loops of trocr.py and kraken_api.py, the loading of   *)
(* trocr_server.py's model and trocr.py's post_process_text.               *)
(*                                                                         *)
(* Conventions.  A JSON object is a record whose DOMAIN is the set of its  *)
(* keys.  A confidence the code writes as a fraction (0.85, 0.95, 0.5) is  *)
(* kept in hundredths (85, 95, 50).  Text the engine produces is one of a  *)
(* few sample strings ("" is the empty text); in the sweep, where the text *)
(* is scored, it is its length and its count of alphanumeric characters.   *)
(* str(e) of an exception is the string "exc".  Python's sys.argv[i] is    *)
(* sys_argv[i+1].                                                          *)
(***************************************************************************)
EXTENDS Integers, Sequences, FiniteSets, TLC

VARIABLES
    \* ---- one command-line run ----
    script,        \* the script being run
    sys_argv,      \* sys.argv: <<script, image_path?, language?>>
    image_exists,  \* os.path.exists(image_path)
    tessdata,      \* languages l with <l>.traineddata under TESSDATA_PREFIX
    language,      \* the script's language variable ("" before it is set)
    pc,            \* position of the run
    result,        \* the script's result object (NoResult before it is set)
    stdout,        \* what the run printed: JSON objects and plain lines
    exit_code,     \* -1 while running
    temp_files,    \* preprocessed-image temp files that exist
    engine_langs,  \* the -l values the OCR engine was invoked with
    propagated,    \* an exception left the recognition entry point
    \* ---- an HTTP server and the request it is handling ----
    server,        \* kraken_api.py or trocr_server.py
    clock,         \* int(time.time()), counted from the server's start
    served,        \* requests accepted so far
    request,       \* the request being handled (NoRequest when idle)
    hpc,           \* position of the handler
    image_path,    \* the handler's temp-file path (NoPath before it is set)
    tmp_dir,       \* the temp files that exist
    ocr_result,    \* what the recognition function returned
    response,      \* the response sent (NoResponse: none)
    processor,     \* trocr_server.py's global processor is not None
    model,         \* trocr_server.py's global model is not None
    ocr_calls,     \* calls of the recognition function for this request
    created,       \* this request created its temp file
    handler_raised, \* an exception left the handler
    \* ---- one call of trocr.py's perform_handwriting_recognition ----
    sw_pc,           \* position in the function
    variant,         \* the loop's variant
    orientation,     \* index into orientations of the attempt to make next
    best_text,       \* best_text
    best_confidence, \* best_confidence
    best_combo,      \* best_combo (NoCombo: None)
    sw_result,       \* the dictionary returned
    top,             \* history: an attempt of the highest quality_score so far
    last_attempt,    \* history: the attempt made last
    \* ---- one call of optimized_trocr.py's recognize_text_parallel ----
    pl_pc,         \* position in the function
    max_workers,   \* MAX_WORKERS
    task_outcome,  \* what each task's OCR attempt does, whenever it is run
    submitted,     \* tasks handed to a worker process so far
    running,       \* tasks a worker process is executing
    futures,       \* the result each finished task returned
    results,       \* results
    returned,      \* the tuple returned
    overtaken,     \* history: a task finished while an earlier one still ran
    \* ---- one call of trocr.py's recognize_text ----
    rt_pc,         \* position in the function
    config_index,  \* index into configs of the configuration to try next
    rt_best_text,  \* best_text
    best_conf,     \* best_conf
    best_config,   \* index into configs of best_config (0: None)
    tried,         \* history: what each configuration tried so far did
    rt_returned,   \* the tuple returned
    \* ---- one call of kraken_api.py's recognize_handwritten_text ----
    kr_pc,         \* position in the function
    kr_language,   \* language
    kr_tessdata,   \* languages l with <l>.traineddata under TESSDATA_PREFIX
    preprocessed_variants, \* how many images preprocessed_variants holds
    kr_image,      \* index of processed_image in preprocessed_variants
    kr_psm,        \* index of psm in psm_modes
    kr_oem,        \* index of oem in oem_modes
    kr_best,       \* best_result
    max_confidence, \* history: the highest confidence of an attempt so far
    some_text,     \* history: an attempt produced a non-empty text
    adaptive,      \* history: images perform_adaptive_preprocessing returned
    basic,         \* history: what the call of preprocess_image did
    engine_calls,  \* history: OCR attempts begun
    kr_raised,     \* history: an OCR attempt raised
    kr_result,     \* the dictionary returned
    \* ---- an HTTP server and the requests in flight ----
    sv_server,     \* kraken_api.py or trocr_server.py
    sv_clock,      \* int(time.time()), counted from the server's start
    handlers,      \* the handler of each connection
    disk,          \* the temp files that exist, and whose upload each holds
    \* ---- trocr_server.py's model and its calls of recognize_text ----
    ld_pc,            \* position in recognize_text
    ld_processor,     \* the global processor is not None
    ld_model,         \* the global model is not None
    ld_calls,         \* calls of recognize_text so far
    initialize_calls, \* history: calls of initialize_model so far
    ld_entry,         \* history: both globals were set when this call began
    ld_attempted,     \* history: calls of initialize_model within this call
    ld_used,          \* history: the globals at each use of them in this call
    ld_result,        \* the dictionary returned
    \* ---- one call of trocr.py's post_process_text ----
    pp_pc,         \* position of the call
    pp_text,       \* text, as a sequence of characters
    pp_returned    \* the text returned

cliVars == <<script, sys_argv, image_exists, tessdata, language, pc, result,
             stdout, exit_code, temp_files, engine_langs, propagated>>

httpVars == <<server, clock, served, request, hpc, image_path, tmp_dir,
              ocr_result, response, processor, model, ocr_calls, created,
              handler_raised>>

sweepVars == <<sw_pc, variant, orientation, best_text, best_confidence,
               best_combo, sw_result, top, last_attempt>>

poolVars == <<pl_pc, max_workers, task_outcome, submitted, running, futures,
              results, returned, overtaken>>

serveVars == <<sv_server, sv_clock, handlers, disk>>

configVars == <<rt_pc, config_index, rt_best_text, best_conf, best_config,
                tried, rt_returned>>

krakenVars == <<kr_pc, kr_language, kr_tessdata, preprocessed_variants,
                kr_image, kr_psm, kr_oem, kr_best, max_confidence,
                some_text, adaptive, basic, engine_calls, kr_raised,
                kr_result>>

loadVars == <<ld_pc, ld_processor, ld_model, ld_calls, initialize_calls,
              ld_entry, ld_attempted, ld_used, ld_result>>

postVars == <<pp_pc, pp_text, pp_returned>>

vars == <<cliVars, httpVars, sweepVars, poolVars, serveVars, configVars,
          krakenVars, loadVars, postVars>>

\* what a command-line run, a server, a sweep, a pool, ... leaves alone
notCli    == <<httpVars, sweepVars, poolVars, serveVars, configVars, krakenVars,
               loadVars, postVars>>
notHttp   == <<cliVars, sweepVars, poolVars, serveVars, configVars, krakenVars,
               loadVars, postVars>>
notSweep  == <<cliVars, httpVars, poolVars, serveVars, configVars, krakenVars,
               loadVars, postVars>>
notPool   == <<cliVars, httpVars, sweepVars, serveVars, configVars, krakenVars,
               loadVars, postVars>>
notServe  == <<cliVars, httpVars, sweepVars, poolVars, configVars, krakenVars,
               loadVars, postVars>>
notConfig == <<cliVars, httpVars, sweepVars, poolVars, serveVars, krakenVars,
               loadVars, postVars>>
notKraken == <<cliVars, httpVars, sweepVars, poolVars, serveVars, configVars,
               loadVars, postVars>>
notLoad   == <<cliVars, httpVars, sweepVars, poolVars, serveVars, configVars,
               krakenVars, postVars>>
notPost   == <<cliVars, httpVars, sweepVars, poolVars, serveVars, configVars,
               krakenVars, loadVars>>

----------------------------------------------------------------------------
(* Values *)

LIGHT     == "light-ocr.py"
TROCR     == "trocr.py"
OPTIMIZED == "optimized_trocr.py"
REAL      == "real_trocr.py"
SIMPLE    == "simple_trocr.py"
FALLBACK  == "fallback_trocr.py"

Scripts == {LIGHT, TROCR, OPTIMIZED, REAL, SIMPLE, FALLBACK}

\* language codes a caller passes; "deu" stands for any code but eng and ces
LanguageCodes == {"eng", "ces", "deu"}

IMAGE_PATH == "page.png"

NoResult == [unset |-> TRUE]

\* the two result shapes the scripts build
Failure(err)        == [success |-> FALSE, error |-> err]
FailureText(err)    == [success |-> FALSE, text |-> "", error |-> err]
Success(text, conf) == [success |-> TRUE, text |-> text, confidence |-> conf]

\* print(json.dumps(obj)) and print("...") of a plain line
Json(obj)  == [kind |-> "json", obj |-> obj]
Line(what) == [kind |-> "line", obj |-> [line |-> what]]

\* texts the engine can hand back when it found words
SampleTexts == {"Mood 8/10", "~"}

\* average word confidences (0..100) the engine can report
SampleConfidences == {30, 90}

----------------------------------------------------------------------------
(* The OCR engine, as the scripts see it *)

\* the languages of a -l value
LangParts(l) == IF l = "ces+eng" THEN {"ces", "eng"} ELSE {l}

\* what an engine invocation with -l l can do: find words, find none, or fail
\* (non-zero exit status / TesseractError); it fails when none of the
\* languages has training data
EngineOutcomes(l, data) ==
    IF LangParts(l) \cap data = {} THEN {"error"}
    ELSE {"words", "nowords", "error"}

\* "Check if we have the language data, fallback to 'eng' if not"
FallbackLang(lang, data) ==
    IF lang # "eng" /\ lang \notin data THEN "eng" ELSE lang

\* "Pro ceske texty pridat i podporu anglictiny jako zalohu"
LangParam_NoEnglish(lang) == lang

LangParam(lang) == IF lang = "ces" THEN "ces+eng" ELSE lang

\* language = sys.argv[2] if len(sys.argv) > 2 else 'eng'
ArgLanguage(argv) == IF Len(argv) > 2 THEN argv[3] ELSE "eng"

----------------------------------------------------------------------------
(* Steps shared by the scripts' main flows *)

\* a sys.exit(1) that does not end the run: the final print is reached
Exit_FallsThrough(code) ==
    /\ exit_code' = IF code = 0 THEN 0 ELSE exit_code
    /\ pc' = IF code = 0 THEN "exit" ELSE "print"

\* sys.exit(code), or the end of the script (code 0)
Exit(code) == /\ exit_code' = code
              /\ pc' = "exit"

Emit(entry) == stdout' = Append(stdout, entry)

At(s, p) == script = s /\ pc = p

----------------------------------------------------------------------------
(* fallback_trocr.py *)

czech_texts == <<"Dnes jsem mel/a prijemny den.",
                 "Datum: 12.5.2025 Nalada: 7/10",
                 "Datum: {d}.{m}.2025 Citim se dobre",
                 "Dnesni den byl uspesny.">>

english_texts == <<"Today was a good day.",
                   "Date: 05/12/2025 Mood: 7/10",
                   "Date: {m}/{d}/2025 Feeling good today",
                   "Today was successful.">>

FallbackConfidence == 85

Range(s) == {s[i] : i \in DOMAIN s}

FallbackTexts_CesOrDeu(lang) ==
    IF lang # "eng" THEN Range(czech_texts) ELSE Range(english_texts)

\* random.choice over the list the language selects
FallbackTexts(lang) ==
    IF lang = "ces" THEN Range(czech_texts) ELSE Range(english_texts)

FallbackRun ==
    /\ At(FALLBACK, "start")
    /\ LET lang == IF Len(sys_argv) >= 2 THEN ArgLanguage(sys_argv) ELSE "eng"
       IN /\ language' = lang
          /\ \E recognized_text \in FallbackTexts(lang) :
               /\ result' = [success |-> TRUE, text |-> recognized_text,
                             confidence |-> FallbackConfidence,
                             note |-> "fallback text"]
               /\ Emit(Json(result'))
    /\ Exit(0)
    /\ UNCHANGED <<script, sys_argv, image_exists, tessdata, temp_files,
                   engine_langs, propagated>>
    /\ UNCHANGED notCli

----------------------------------------------------------------------------
(* light-ocr.py *)

\* perform_quick_ocr: the results it can return, each with the -l values the
\* engine was invoked with on the way
perform_quick_ocr(exists, lang, data) ==
    IF ~exists
    THEN {[result |-> Failure("Image file not found"), engine |-> {}]}
    ELSE LET l == FallbackLang(lang, data) IN
         \* cv2.imread returned None; cvtColor / threshold raised
         {[result |-> Failure("Failed to load image"), engine |-> {}],
          [result |-> Failure("exc"), engine |-> {}]}
         \cup
         \* image_to_data raised, or image_to_string raised after no words
         {[result |-> Failure("exc"), engine |-> {l}] :
              o \in EngineOutcomes(l, data) \cap {"error"}}
         \cup
         \* words with confidences
         {[result |-> Success(t, c), engine |-> {l}] :
              t \in IF "words" \in EngineOutcomes(l, data)
                    THEN SampleTexts ELSE {},
              c \in SampleConfidences}
         \cup
         \* confidence_count == 0: image_to_string, confidence 50.0
         {[result |-> Success(t, 50), engine |-> {l}] :
              t \in IF "nowords" \in EngineOutcomes(l, data)
                    THEN {""} ELSE {}}

LightOcrMain ==
    /\ At(LIGHT, "start")
    /\ IF Len(sys_argv) < 2
       THEN /\ Emit(Json(Failure("No image path provided")))
            /\ Exit(1)
            /\ UNCHANGED <<language, result>>
       ELSE /\ language' = ArgLanguage(sys_argv)
            /\ pc' = "recognize"
            /\ UNCHANGED <<stdout, exit_code, result>>
    /\ UNCHANGED <<script, sys_argv, image_exists, tessdata, temp_files,
                   engine_langs, propagated>>
    /\ UNCHANGED notCli

LightOcrRecognize ==
    /\ At(LIGHT, "recognize")
    /\ \E o \in perform_quick_ocr(image_exists, language, tessdata) :
         /\ result' = o.result
         /\ engine_langs' = engine_langs \cup o.engine
    /\ pc' = "print"
    /\ UNCHANGED <<script, sys_argv, image_exists, tessdata, language, stdout,
                   exit_code, temp_files, propagated>>
    /\ UNCHANGED notCli

LightOcrPrint ==
    /\ At(LIGHT, "print")
    /\ Emit(Json(result))
    /\ Exit(0)
    /\ UNCHANGED <<script, sys_argv, image_exists, tessdata, language, result,
                   temp_files, engine_langs, propagated>>
    /\ UNCHANGED notCli

----------------------------------------------------------------------------
(* trocr.py, its command-line entry *)

\* perform_handwriting_recognition as its caller sees it: the results it can
\* return (the sweep itself is modelled step by step further down)
TrocrRecognitionOutcomes(exists, lang, data) ==
    IF ~exists
    THEN \* shutil.copy raises, the handler returns str(e)
         {[result |-> Failure("exc"), engine |-> {}]}
    ELSE LET l == FallbackLang(lang, data) IN
         \* preprocess_image raised on the first variant
         {[result |-> Failure("exc"), engine |-> {}]}
         \cup
         {[result |-> Failure("No valid text detected in image"),
           engine |-> {l}]}
         \cup
         {[result |-> [success |-> TRUE, text |-> t, confidence |-> c,
                       best_variant |-> 0, best_orientation |-> 0],
           engine |-> {l}] :
              t \in IF "words" \in EngineOutcomes(l, data)
                    THEN SampleTexts ELSE {},
              c \in SampleConfidences}

TrocrMain ==
    /\ At(TROCR, "start")
    /\ IF Len(sys_argv) < 2
       THEN /\ Emit(Json(Failure("No image path provided")))
            /\ Exit(1)
            /\ UNCHANGED <<language, result>>
       ELSE /\ language' = ArgLanguage(sys_argv)
            /\ pc' = "recognize"
            /\ UNCHANGED <<stdout, exit_code, result>>
    /\ UNCHANGED <<script, sys_argv, image_exists, tessdata, temp_files,
                   engine_langs, propagated>>
    /\ UNCHANGED notCli

TrocrRecognize ==
    /\ At(TROCR, "recognize")
    /\ \E o \in TrocrRecognitionOutcomes(image_exists, language, tessdata) :
         /\ result' = o.result
         /\ engine_langs' = engine_langs \cup o.engine
    /\ pc' = "print"
    /\ UNCHANGED <<script, sys_argv, image_exists, tessdata, language, stdout,
                   exit_code, temp_files, propagated>>
    /\ UNCHANGED notCli

TrocrPrint ==
    /\ At(TROCR, "print")
    /\ Emit(Json(result))
    /\ Exit(0)
    /\ UNCHANGED <<script, sys_argv, image_exists, tessdata, language, result,
                   temp_files, engine_langs, propagated>>
    /\ UNCHANGED notCli

----------------------------------------------------------------------------
(* trocr.py: perform_handwriting_recognition, attempt by attempt *)

\* A recognized text is kept as what the scoring reads of it: its length and
\* the number of its alphanumeric characters.
Text(len, alnum) == [len |-> len, alnum |-> alnum]

EmptyText == Text(0, 0)

variants == 10

orientations == <<0, 90, 180, 270>>

NoCombo == <<-1, -1>>

\* None, where a number is expected
None == -1

NoAttempt == [variant |-> None, orientation |-> None, text |-> EmptyText]

\* what recognize_text(processed_image, orientation, language) can return:
\* (best text, its average confidence) or ("", 0)
SweepAttempts ==
    {[text |-> EmptyText,      confidence |-> 0],
     [text |-> Text(120, 100), confidence |-> 90],
     [text |-> Text(100, 100), confidence |-> 70],
     [text |-> Text(9, 7),     confidence |-> 95]}

RECURSIVE Gcd(_, _)
Gcd(a, b) == IF b = 0 THEN a ELSE Gcd(b, a % b)

Min(a, b) == IF a < b THEN a ELSE b
Max(a, b) == IF a > b THEN a ELSE b

\* quality_score = confidence * length_factor * char_ratio * 1.5, as the
\* fraction <<numerator, denominator>> with
\*   total_length  = max(1, len(text))
\*   char_ratio    = alpha_count / total_length
\*   length_factor = min(1.0, total_length / 100)
\* (in lowest terms, so that comparing two scores stays within 32 bits)
QualityScore(text, confidence) ==
    LET total_length == Max(1, text.len)
        num == confidence * Min(100, total_length) * text.alnum * 3
        den == 100 * total_length * 2
        g   == Gcd(num, den)
    IN <<num \div g, den \div g>>

\* fractions with positive denominators
FracGt(x, y) == x[1] * y[2] > y[1] * x[2]
FracGe(x, y) == x[1] * y[2] >= y[1] * x[2]

\* if quality_score > best_confidence
NewBest(text, confidence, kept_text, kept_confidence) ==
    FracGt(QualityScore(text, confidence), <<kept_confidence, 1>>)

\* the function's entry up to the loop; shutil.copy can raise
SweepBegin ==
    /\ sw_pc = "start"
    /\ \/ /\ sw_pc' = "preprocess"
          /\ UNCHANGED sw_result
       \/ /\ sw_result' = Failure("exc")
          /\ sw_pc' = "done"
    /\ UNCHANGED <<variant, orientation, best_text, best_confidence,
                   best_combo, top, last_attempt>>
    /\ UNCHANGED notSweep

SweepPreprocess_Isolated ==
    /\ sw_pc = "preprocess"
    /\ \/ /\ orientation' = 1
          /\ sw_pc' = "attempt"
          /\ UNCHANGED variant
       \/ /\ IF variant + 1 < variants
             THEN variant' = variant + 1 /\ UNCHANGED sw_pc
             ELSE sw_pc' = "finish" /\ UNCHANGED variant
          /\ UNCHANGED orientation
    /\ UNCHANGED <<sw_result, best_text, best_confidence, best_combo, top,
                   last_attempt>>
    /\ UNCHANGED notSweep

\* processed_image = preprocess_image(image_path, variant); it has no handler
\* of its own
SweepPreprocess ==
    /\ sw_pc = "preprocess"
    /\ \/ /\ orientation' = 1
          /\ sw_pc' = "attempt"
          /\ UNCHANGED sw_result
       \/ /\ sw_result' = Failure("exc")
          /\ sw_pc' = "done"
          /\ UNCHANGED orientation
    /\ UNCHANGED <<variant, best_text, best_confidence, best_combo, top,
                   last_attempt>>
    /\ UNCHANGED notSweep

\* one pass of the inner loop: recognize_text, the score, the update of the
\* best result, and the step to the next orientation or variant
SweepAttempt ==
    /\ sw_pc = "attempt"
    /\ \E a \in SweepAttempts :
         /\ IF NewBest(a.text, a.confidence, best_text, best_confidence)
            THEN /\ best_confidence' = a.confidence
                 /\ best_text' = a.text
                 /\ best_combo' = <<variant, orientations[orientation]>>
            ELSE UNCHANGED <<best_text, best_confidence, best_combo>>
         /\ top' = IF FracGt(QualityScore(a.text, a.confidence),
                             QualityScore(top.text, top.confidence))
                   THEN a ELSE top
         /\ last_attempt' = [variant |-> variant,
                             orientation |-> orientations[orientation],
                             text |-> a.text]
    /\ IF orientation < Len(orientations)
       THEN /\ orientation' = orientation + 1
            /\ UNCHANGED <<variant, sw_pc>>
       ELSE /\ orientation' = 1
            /\ IF variant + 1 < variants
               THEN /\ variant' = variant + 1
                    /\ sw_pc' = "preprocess"
               ELSE /\ sw_pc' = "finish"
                    /\ UNCHANGED variant
    /\ UNCHANGED sw_result
    /\ UNCHANGED notSweep

\* recognize_text rotates and writes a debug image before its own handlers:
\* an exception there ends the function
SweepAttemptRaises ==
    /\ sw_pc = "attempt"
    /\ sw_result' = Failure("exc")
    /\ sw_pc' = "done"
    /\ UNCHANGED <<variant, orientation, best_text, best_confidence,
                   best_combo, top, last_attempt>>
    /\ UNCHANGED notSweep

\* after the loops: no text, or the post-processed best text
SweepFinish ==
    /\ sw_pc = "finish"
    /\ sw_result' =
         IF best_text = EmptyText
         THEN Failure("No valid text detected in image")
         ELSE [success |-> TRUE,
               text |-> [post_process_text |-> best_text],
               confidence |-> best_confidence,
               best_variant |-> IF best_combo # NoCombo
                                THEN best_combo[1] ELSE None,
               best_orientation |-> IF best_combo # NoCombo
                                    THEN best_combo[2] ELSE None]
    /\ sw_pc' = "done"
    /\ UNCHANGED <<variant, orientation, best_text, best_confidence,
                   best_combo, top, last_attempt>>
    /\ UNCHANGED notSweep

SweepStart ==
    /\ variant = 0
    /\ orientation = 1
    /\ best_text = EmptyText
    /\ best_confidence = 0
    /\ best_combo = NoCombo
    /\ sw_result = NoResult
    /\ top = [text |-> EmptyText, confidence |-> 0]
    /\ last_attempt = NoAttempt

\* no sweep runs
SweepIdle == sw_pc = "off" /\ SweepStart

----------------------------------------------------------------------------
(* trocr.py: recognize_text, configuration by configuration *)

\* the PSM/OEM combinations tried, in order
configs == <<[psm |-> 6,  oem |-> 3], [psm |-> 4,  oem |-> 3],
             [psm |-> 3,  oem |-> 3], [psm |-> 11, oem |-> 3],
             [psm |-> 13, oem |-> 3], [psm |-> 6,  oem |-> 1],
             [psm |-> 6,  oem |-> 0]>>

\* what the try block of one configuration can do: raise, find no words, or
\* find words (their joined text and their average confidence)
ConfigAttempts ==
    {[raises |-> TRUE,  text |-> EmptyText,      confidence |-> 0],
     [raises |-> FALSE, text |-> EmptyText,      confidence |-> 0],
     [raises |-> FALSE, text |-> Text(200, 200), confidence |-> 60],
     [raises |-> FALSE, text |-> Text(50, 50),   confidence |-> 90],
     [raises |-> FALSE, text |-> Text(4, 0),     confidence |-> 95]}

\* pytesseract.image_to_string of the fall-back: a text, maybe empty
FallbackStrings == {EmptyText, Text(50, 50)}

FallbackOcrConfidence == 50

\* if len(text) > 10:
\*     quality_score = confidence * (min(len(text), 200) / 100) * char_ratio * 1.5
\* else:
\*     quality_score = confidence * (len(text) / 100) * char_ratio
\* as the fraction <<numerator, denominator>> in lowest terms
ConfigQualityScore(text, confidence) ==
    LET total_count == Max(1, text.len)
        num == IF text.len > 10
               THEN confidence * Min(text.len, 200) * text.alnum * 3
               ELSE confidence * text.len * text.alnum
        den == IF text.len > 10
               THEN 100 * total_count * 2
               ELSE 100 * total_count
        g   == Gcd(num, den)
    IN <<num \div g, den \div g>>

\* if quality_score > best_conf
BetterConfig(text, confidence, kept_conf) ==
    FracGt(ConfigQualityScore(text, confidence), <<kept_conf, 1>>)

\* one pass of the loop over configs
TryConfig ==
    /\ rt_pc = "loop"
    /\ config_index <= Len(configs)
    /\ \E a \in ConfigAttempts :
         /\ tried' = Append(tried, a)
         /\ IF ~a.raises /\ a.text # EmptyText
               /\ BetterConfig(a.text, a.confidence, best_conf)
            THEN /\ rt_best_text' = a.text
                 /\ best_conf' = a.confidence
                 /\ best_config' = config_index
            ELSE UNCHANGED <<rt_best_text, best_conf, best_config>>
    /\ config_index' = config_index + 1
    /\ UNCHANGED <<rt_pc, rt_returned>>
    /\ UNCHANGED notConfig

\* after the loop, with a best text: return best_text, best_conf
ReturnBest ==
    /\ rt_pc = "loop"
    /\ config_index > Len(configs)
    /\ rt_best_text # EmptyText
    /\ rt_returned' = [text |-> rt_best_text, confidence |-> best_conf]
    /\ rt_pc' = "done"
    /\ UNCHANGED <<config_index, rt_best_text, best_conf, best_config, tried>>
    /\ UNCHANGED notConfig

\* after the loop, without one: image_to_string, or ("", 0) when it raises
BasicOcr ==
    /\ rt_pc = "loop"
    /\ config_index > Len(configs)
    /\ rt_best_text = EmptyText
    /\ \/ \E t \in FallbackStrings :
            rt_returned' = [text |-> t, confidence |-> FallbackOcrConfidence]
       \/ rt_returned' = [text |-> EmptyText, confidence |-> 0]
    /\ rt_pc' = "done"
    /\ UNCHANGED <<config_index, rt_best_text, best_conf, best_config, tried>>
    /\ UNCHANGED notConfig

ConfigStart ==
    /\ config_index = 1
    /\ rt_best_text = EmptyText
    /\ best_conf = 0
    /\ best_config = 0
    /\ tried = <<>>
    /\ rt_returned = NoResult

\* no call of recognize_text runs
ConfigIdle == rt_pc = "off" /\ ConfigStart

----------------------------------------------------------------------------
(* kraken_api.py: recognize_handwritten_text, attempt by attempt *)

psm_modes == <<6, 4>>

oem_modes == <<1, 3>>

\* the confidence given to the text of image_to_string, in hundredths
DefaultConfidence == 50

\* what one attempt's try block can do: raise, or come to a text and a
\* confidence (in hundredths): the joined words and their average
\* confidence / 100, or, when image_to_data has no word, the text of
\* image_to_string (maybe empty) and the default confidence
KrakenAttempts ==
    {[raises |-> TRUE,  text |-> EmptyText,    confidence |-> 0],
     [raises |-> FALSE, text |-> Text(10, 10), confidence |-> 90],
     [raises |-> FALSE, text |-> Text(20, 20), confidence |-> 82],
     [raises |-> FALSE, text |-> Text(30, 30), confidence |-> 74],
     [raises |-> FALSE, text |-> Text(5, 5),   confidence |-> 30],
     [raises |-> FALSE, text |-> EmptyText,    confidence |-> DefaultConfidence],
     [raises |-> FALSE, text |-> Text(8, 8),   confidence |-> DefaultConfidence]}

Abs(x) == IF x < 0 THEN -x ELSE x

\* if (confidence > best_result["confidence"] or
\*     (abs(confidence - best_result["confidence"]) < 0.1
\*      and len(text) > len(best_result["text"])))
KeepsAttempt(text, confidence, best) ==
    \/ confidence > best.confidence
    \/ /\ Abs(confidence - best.confidence) < 10
       /\ text.len > best.text.len

\* how many images perform_adaptive_preprocessing returns: three, two when
\* the PIL step raised, none when the image cannot be read or a step raised
AdaptiveVariants == {3, 2, 0}

\* the language check, perform_adaptive_preprocessing, and preprocess_image
\* when that returned nothing; cv2.cvtColor of preprocess_image can raise
KrakenPreprocess ==
    /\ kr_pc = "start"
    /\ kr_language' = FallbackLang(kr_language, kr_tessdata)
    /\ \E n \in AdaptiveVariants :
         /\ adaptive' = n
         /\ IF n > 0
            THEN /\ preprocessed_variants' = n
                 /\ basic' = "not called"
                 /\ kr_pc' = "attempt"
                 /\ UNCHANGED kr_result
            ELSE \/ /\ preprocessed_variants' = 1
                    /\ basic' = "image"
                    /\ kr_pc' = "attempt"
                    /\ UNCHANGED kr_result
                 \/ /\ kr_result' = Failure("Failed to preprocess image")
                    /\ basic' = "None"
                    /\ kr_pc' = "done"
                    /\ UNCHANGED preprocessed_variants
                 \/ /\ kr_result' =
                          Failure("Handwritten text recognition failed: exc")
                    /\ basic' = "raised"
                    /\ kr_pc' = "done"
                    /\ UNCHANGED preprocessed_variants
    /\ UNCHANGED <<kr_tessdata, kr_image, kr_psm, kr_oem, kr_best,
                   max_confidence, some_text, engine_calls, kr_raised>>
    /\ UNCHANGED notKraken

KrakenAttempt_StopsOnRaise ==
    /\ kr_pc = "attempt"
    /\ engine_calls' = engine_calls + 1
    /\ \E a \in KrakenAttempts :
         IF a.raises
         THEN /\ kr_raised' = TRUE
              /\ kr_pc' = "finish"
              /\ UNCHANGED <<kr_best, max_confidence, some_text, kr_oem,
                             kr_psm, kr_image>>
         ELSE /\ kr_best' = IF KeepsAttempt(a.text, a.confidence, kr_best)
                                THEN [text |-> a.text, confidence |-> a.confidence]
                                ELSE kr_best
              /\ max_confidence' = Max(max_confidence, a.confidence)
              /\ some_text' = (some_text \/ a.text # EmptyText)
              /\ UNCHANGED kr_raised
              /\ IF kr_oem < Len(oem_modes)
                 THEN /\ kr_oem' = kr_oem + 1
                      /\ UNCHANGED <<kr_psm, kr_image, kr_pc>>
                 ELSE /\ kr_oem' = 1
                      /\ IF kr_psm < Len(psm_modes)
                         THEN /\ kr_psm' = kr_psm + 1
                              /\ UNCHANGED <<kr_image, kr_pc>>
                         ELSE /\ kr_psm' = 1
                              /\ IF kr_image < preprocessed_variants
                                 THEN /\ kr_image' = kr_image + 1
                                      /\ UNCHANGED kr_pc
                                 ELSE /\ kr_pc' = "finish"
                                      /\ UNCHANGED kr_image
    /\ UNCHANGED <<kr_language, kr_tessdata, preprocessed_variants, adaptive,
                   basic, kr_result>>
    /\ UNCHANGED notKraken

\* one pass of the innermost loop, and the step to the next oem, psm or
\* image
KrakenAttempt ==
    /\ kr_pc = "attempt"
    /\ engine_calls' = engine_calls + 1
    /\ \E a \in KrakenAttempts :
         IF a.raises
         THEN /\ kr_raised' = TRUE
              /\ UNCHANGED <<kr_best, max_confidence, some_text>>
         ELSE /\ kr_best' = IF KeepsAttempt(a.text, a.confidence, kr_best)
                                THEN [text |-> a.text, confidence |-> a.confidence]
                                ELSE kr_best
              /\ max_confidence' = Max(max_confidence, a.confidence)
              /\ some_text' = (some_text \/ a.text # EmptyText)
              /\ UNCHANGED kr_raised
    /\ IF kr_oem < Len(oem_modes)
       THEN /\ kr_oem' = kr_oem + 1
            /\ UNCHANGED <<kr_psm, kr_image, kr_pc>>
       ELSE /\ kr_oem' = 1
            /\ IF kr_psm < Len(psm_modes)
               THEN /\ kr_psm' = kr_psm + 1
                    /\ UNCHANGED <<kr_image, kr_pc>>
               ELSE /\ kr_psm' = 1
                    /\ IF kr_image < preprocessed_variants
                       THEN /\ kr_image' = kr_image + 1
                            /\ UNCHANGED kr_pc
                       ELSE /\ kr_pc' = "finish"
                            /\ UNCHANGED kr_image
    /\ UNCHANGED <<kr_language, kr_tessdata, preprocessed_variants, adaptive,
                   basic, kr_result>>
    /\ UNCHANGED notKraken

\* after the loops
KrakenFinish ==
    /\ kr_pc = "finish"
    /\ kr_result' =
         IF kr_best.text # EmptyText
         THEN [success |-> TRUE, text |-> kr_best.text,
               confidence |-> kr_best.confidence]
         ELSE Failure("Failed to recognize text with any configuration")
    /\ kr_pc' = "done"
    /\ UNCHANGED <<kr_language, kr_tessdata, preprocessed_variants, kr_image,
                   kr_psm, kr_oem, kr_best, max_confidence, some_text,
                   adaptive, basic, engine_calls, kr_raised>>
    /\ UNCHANGED notKraken

KrakenStart ==
    /\ preprocessed_variants = 0
    /\ kr_image = 1
    /\ kr_psm = 1
    /\ kr_oem = 1
    /\ kr_best = [text |-> EmptyText, confidence |-> 0]
    /\ max_confidence = 0
    /\ some_text = FALSE
    /\ adaptive = None
    /\ basic = "not called"
    /\ engine_calls = 0
    /\ kr_raised = FALSE
    /\ kr_result = NoResult

\* no call of recognize_handwritten_text runs
KrakenIdle ==
    /\ kr_pc = "off"
    /\ kr_language = ""
    /\ kr_tessdata = {}
    /\ KrakenStart

----------------------------------------------------------------------------
(* optimized_trocr.py, its command-line entry *)

\* recognize_text_parallel as main() sees it: it returns the tuple
\* (text, confidence, variant, orientation) of the best attempt, or an
\* exception of the worker pool (a worker process that died, a pool that
\* could not be started) leaves it: it has no handler of its own.
\* An attempt whose preprocessing raised never reaches the engine.
RecognizeParallelOutcomes(lang, data) ==
    LET l == LangParam(lang) IN
    {[raised |-> TRUE, text |-> "", confidence |-> 0, engine |-> e] :
         e \in {{}, {l}}}
    \cup
    {[raised |-> FALSE, text |-> "", confidence |-> 0, engine |-> e] :
         e \in {{}, {l}}}
    \cup
    {[raised |-> FALSE, text |-> t, confidence |-> c, engine |-> {l}] :
         t \in IF "words" \in EngineOutcomes(l, data)
               THEN SampleTexts ELSE {},
         c \in SampleConfidences}

OptimizedMain ==
    /\ At(OPTIMIZED, "start")
    /\ IF Len(sys_argv) < 2
       THEN /\ Emit(Line("usage"))
            /\ Exit(1)
            /\ UNCHANGED language
       ELSE /\ language' = ArgLanguage(sys_argv)
            /\ IF ~image_exists
               THEN /\ Emit(Line("file does not exist"))
                    /\ Exit(1)
               ELSE /\ pc' = "recognize"
                    /\ UNCHANGED <<stdout, exit_code>>
    /\ UNCHANGED <<script, sys_argv, image_exists, tessdata, result,
                   temp_files, engine_langs, propagated>>
    /\ UNCHANGED notCli

OptimizedRecognize ==
    /\ At(OPTIMIZED, "recognize")
    /\ \E o \in RecognizeParallelOutcomes(language, tessdata) :
         /\ engine_langs' = engine_langs \cup o.engine
         /\ IF o.raised
            THEN \* the traceback goes to stderr and the interpreter exits 1
                 /\ propagated' = TRUE
                 /\ Exit(1)
                 /\ UNCHANGED result
            ELSE /\ result' = [success |-> o.text # "", text |-> o.text,
                               confidence |-> o.confidence,
                               execution_time |-> 0,
                               best_variant |-> 0, best_orientation |-> 0]
                 /\ pc' = "print"
                 /\ UNCHANGED <<exit_code, propagated>>
    /\ UNCHANGED <<script, sys_argv, image_exists, tessdata, language, stdout,
                   temp_files>>
    /\ UNCHANGED notCli

OptimizedPrint ==
    /\ At(OPTIMIZED, "print")
    /\ stdout' = stdout \o <<Line("summary"), Json(result)>>
    /\ Exit(0)
    /\ UNCHANGED <<script, sys_argv, image_exists, tessdata, language, result,
                   temp_files, engine_langs, propagated>>
    /\ UNCHANGED notCli

----------------------------------------------------------------------------
(* optimized_trocr.py: recognize_text_parallel and its process pool *)

preprocessing_variants == <<0, 2, 5, 7, 10>>

parallel_orientations == <<0, 270>>

\* tasks = [(image_path, variant, orientation, lang) for variant in
\* preprocessing_variants for orientation in orientations]
tasks ==
    [i \in 1..(Len(preprocessing_variants) * Len(parallel_orientations)) |->
        <<preprocessing_variants[((i - 1) \div Len(parallel_orientations)) + 1],
          parallel_orientations[((i - 1) % Len(parallel_orientations)) + 1]>>]

Tasks == DOMAIN tasks

\* the largest MAX_WORKERS = max(1, cpu_count() - 1) explored
MaxPool == 2

\* at most this many tasks of a run differ from the run's other tasks
MaxBest == 1

\* what the body of process_image_variant's try block can do for a task:
\* raise, find no words, or find words (their text and average confidence)
Raises  == [raises |-> TRUE,  text |-> EmptyText,    confidence |-> 0]
NoWords == [raises |-> FALSE, text |-> EmptyText,    confidence |-> 0]
Faint   == [raises |-> FALSE, text |-> Text(40, 36), confidence |-> 40]
Clear   == [raises |-> FALSE, text |-> Text(20, 16), confidence |-> 90]

ParallelAttempts == {Raises, NoWords, Faint, Clear}

\* the attempts of a run: all tasks do the same, but for a few that do
\* something else
AttemptProfiles ==
    {[t \in Tasks |-> IF t \in some THEN o ELSE base] :
        some \in {x \in SUBSET Tasks : Cardinality(x) <= MaxBest},
        o \in ParallelAttempts, base \in ParallelAttempts}

\* quality_score = confidence * 0.6 + text_length_score * 0.2
\*                 + char_ratio * 100 * 0.2, or 0 for a blank text, as the
\* fraction <<numerator, denominator>> in lowest terms, with
\*   total_count       = max(1, len(text))
\*   char_ratio        = alpha_count / total_count
\*   text_length_score = min(len(text), 200) / 100
ParallelQualityScore(text, confidence) ==
    IF text = EmptyText THEN <<0, 1>>
    ELSE LET total_count == Max(1, text.len)
             num == confidence * 300 * total_count
                    + Min(text.len, 200) * total_count
                    + text.alnum * 10000
             den == 500 * total_count
             g   == Gcd(num, den)
         IN <<num \div g, den \div g>>

\* process_image_variant(tasks[t]) when the attempt does o: the dictionary of
\* the try block, or the one of its except branch
process_image_variant(t, o) ==
    IF o.raises
    THEN [variant |-> tasks[t][1], orientation |-> tasks[t][2],
          text |-> EmptyText, confidence |-> 0, quality_score |-> <<0, 1>>,
          error |-> "exc"]
    ELSE [variant |-> tasks[t][1], orientation |-> tasks[t][2],
          text |-> o.text, confidence |-> o.confidence,
          quality_score |-> ParallelQualityScore(o.text, o.confidence)]

\* post_process_text(text): "" for an empty text, else the cleaned text
PostProcessed(text) ==
    IF text = EmptyText THEN EmptyText ELSE [post_process_text |-> text]

\* a sort that puts r before the elements of equal score
RECURSIVE InsertByScore_Unstable(_, _)
InsertByScore_Unstable(s, r) ==
    IF s = <<>> THEN <<r>>
    ELSE IF FracGt(Head(s).quality_score, r.quality_score)
         THEN <<Head(s)>> \o InsertByScore_Unstable(Tail(s), r)
         ELSE <<r>> \o s

\* list.sort(key=quality_score, reverse=True) is stable: r goes behind every
\* element of the sorted list s whose score is not lower than its own
RECURSIVE InsertByScore(_, _)
InsertByScore(s, r) ==
    IF s = <<>> THEN <<r>>
    ELSE IF FracGe(Head(s).quality_score, r.quality_score)
         THEN <<Head(s)>> \o InsertByScore(Tail(s), r)
         ELSE <<r>> \o s

RECURSIVE SortedByScore(_)
SortedByScore(s) ==
    IF s = <<>> THEN <<>>
    ELSE InsertByScore(SortedByScore(SubSeq(s, 1, Len(s) - 1)), s[Len(s)])

\* a selection that reports the variant and orientation of the first task
BestResult_OfFirstTask(rs) ==
    LET best_result == SortedByScore(rs)[1] IN
    [text |-> PostProcessed(best_result.text),
     confidence |-> best_result.confidence,
     variant |-> rs[1].variant,
     orientation |-> rs[1].orientation]

\* results.sort(...); best_result = results[0]; the tuple returned
BestResult(rs) ==
    LET best_result == SortedByScore(rs)[1] IN
    [text |-> PostProcessed(best_result.text),
     confidence |-> best_result.confidence,
     variant |-> best_result.variant,
     orientation |-> best_result.orientation]

NoFuture == [pending |-> TRUE]

\* a worker process takes the next task of the call queue
WorkerStart ==
    /\ pl_pc = "map"
    /\ Cardinality(running) < max_workers
    /\ submitted < Len(tasks)
    /\ submitted' = submitted + 1
    /\ running' = running \cup {submitted + 1}
    /\ UNCHANGED <<pl_pc, max_workers, task_outcome, futures, results, returned,
                   overtaken>>
    /\ UNCHANGED notPool

\* a worker process returns from process_image_variant
WorkerFinish ==
    /\ pl_pc = "map"
    /\ \E t \in running :
         /\ futures' = [futures EXCEPT
                          ![t] = process_image_variant(t, task_outcome[t])]
         /\ running' = running \ {t}
         /\ overtaken' = (overtaken \/ \E u \in running : u < t)
    /\ UNCHANGED <<pl_pc, max_workers, task_outcome, submitted, results, returned>>
    /\ UNCHANGED notPool

\* a worker process ends abruptly: executor.map raises BrokenProcessPool in
\* recognize_text_parallel, which has no handler; the pool is shut down and
\* the call's locals are gone
WorkerDies ==
    /\ pl_pc = "map"
    /\ running # {}
    /\ pl_pc' = "raised"
    /\ submitted' = 0
    /\ running' = {}
    /\ futures' = [t \in Tasks |-> NoFuture]
    /\ results' = <<>>
    /\ UNCHANGED <<max_workers, task_outcome, returned, overtaken>>
    /\ UNCHANGED notPool

\* a map that yields the second task's result first when it is ready before
\* the first task's
NextYielded_AsCompleted(rs) ==
    IF Len(rs) = 0 /\ futures[1] = NoFuture /\ futures[2] # NoFuture THEN 2
    ELSE IF Len(rs) = 1 /\ rs[1] = futures[2] THEN 1
    ELSE Len(rs) + 1

\* the task whose result executor.map yields next: the map iterates the
\* futures in the order of tasks
NextYielded(rs) == Len(rs) + 1

\* for result in executor.map(...): results.append(result)
Collect ==
    /\ pl_pc = "map"
    /\ Len(results) < Len(tasks)
    /\ futures[NextYielded(results)] # NoFuture
    /\ results' = Append(results, futures[NextYielded(results)])
    /\ UNCHANGED <<pl_pc, max_workers, task_outcome, submitted, running, futures,
                   returned, overtaken>>
    /\ UNCHANGED notPool

\* a loop left at the first result
MapExhausted_Early(rs) == Len(rs) >= 1

\* the loop over executor.map ends when it has yielded every task's result
MapExhausted(rs) == Len(rs) = Len(tasks)

\* after the with block: sort, take results[0], return
Select ==
    /\ pl_pc = "map"
    /\ MapExhausted(results)
    /\ returned' = IF results = <<>>
                   THEN [text |-> EmptyText, confidence |-> 0,
                         variant |-> 0, orientation |-> 0]
                   ELSE BestResult(results)
    /\ pl_pc' = "done"
    /\ UNCHANGED <<max_workers, task_outcome, submitted, running, futures,
                   results, overtaken>>
    /\ UNCHANGED notPool

PoolStart ==
    /\ submitted = 0
    /\ running = {}
    /\ futures = [t \in Tasks |-> NoFuture]
    /\ results = <<>>
    /\ returned = NoResult
    /\ overtaken = FALSE

\* no pool runs
PoolIdle ==
    /\ pl_pc = "off"
    /\ max_workers = 1
    /\ task_outcome = [t \in Tasks |-> NoWords]
    /\ PoolStart

----------------------------------------------------------------------------
(* real_trocr.py *)

\* the result of a tesseract subprocess that was started
SubprocessResult(outcome, text) ==
    IF outcome = "error"
    THEN FailureText("Tesseract vratil chybu")
    ELSE Success(text, 85)

\* stdout of the subprocess, stripped
SubprocessTexts(outcome) ==
    IF outcome = "words" THEN SampleTexts ELSE {""}

REAL_OUTPUT == "page.png_processed.png"

RealCheckArgs ==
    /\ At(REAL, "start")
    /\ IF Len(sys_argv) < 2
       THEN /\ Emit(Line("usage"))
            /\ Exit(1)
            /\ UNCHANGED <<language, result>>
       ELSE /\ language' = ArgLanguage(sys_argv)
            /\ IF ~image_exists
               THEN /\ result' = FailureText("Soubor nebyl nalezen")
                    /\ Emit(Json(result'))
                    /\ Exit(1)
               ELSE /\ pc' = "preprocess"
                    /\ UNCHANGED <<stdout, exit_code, result>>
    /\ UNCHANGED <<script, sys_argv, image_exists, tessdata, temp_files,
                   engine_langs, propagated>>
    /\ UNCHANGED notCli

\* preprocess_image(image_path, output_path) and the exit taken when it
\* returns False (img.save that raises is taken to leave no file behind)
RealPreprocess ==
    /\ At(REAL, "preprocess")
    /\ \E saved \in {"ok", "open_raised", "save_raised"} :
         /\ temp_files' = IF saved = "ok"
                          THEN temp_files \cup {REAL_OUTPUT}
                          ELSE temp_files
         /\ IF saved = "ok"
            THEN /\ pc' = "engine"
                 /\ UNCHANGED <<stdout, exit_code, result>>
            ELSE /\ result' = FailureText("Chyba pri predzpracovani obrazu")
                 /\ Emit(Json(result'))
                 /\ Exit(1)
    /\ UNCHANGED <<script, sys_argv, image_exists, tessdata, language,
                   engine_langs, propagated>>
    /\ UNCHANGED notCli

\* Popen, communicate, os.remove (failure ignored), the result; an exception
\* of Popen goes to the outer handler, past os.remove
RealEngine ==
    /\ At(REAL, "engine")
    /\ LET lang_param == LangParam(language) IN
       \/ /\ result' = FailureText("Zpracovani selhalo")
          /\ UNCHANGED <<temp_files, engine_langs>>
       \/ \E o \in EngineOutcomes(lang_param, tessdata), removed \in BOOLEAN :
            \E text \in SubprocessTexts(o) :
              /\ engine_langs' = engine_langs \cup {lang_param}
              /\ temp_files' = IF removed THEN temp_files \ {REAL_OUTPUT}
                               ELSE temp_files
              /\ result' = SubprocessResult(o, text)
    /\ pc' = "print"
    /\ UNCHANGED <<script, sys_argv, image_exists, tessdata, language, stdout,
                   exit_code, propagated>>
    /\ UNCHANGED notCli

RealPrint ==
    /\ At(REAL, "print")
    /\ Emit(Json(result))
    /\ Exit(0)
    /\ UNCHANGED <<script, sys_argv, image_exists, tessdata, language, result,
                   temp_files, engine_langs, propagated>>
    /\ UNCHANGED notCli

----------------------------------------------------------------------------
(* simple_trocr.py *)

SIMPLE_TEMP == "tmpXXXX.png"

SimpleCheckArgs ==
    /\ At(SIMPLE, "start")
    /\ IF Len(sys_argv) < 2
       THEN /\ Emit(Line("usage"))
            /\ Exit(1)
            /\ UNCHANGED <<language, result>>
       ELSE /\ language' = ArgLanguage(sys_argv)
            /\ IF ~image_exists
               THEN /\ result' = FailureText("Soubor nebyl nalezen")
                    /\ Emit(Json(result'))
                    /\ Exit(1)
               ELSE /\ pc' = "preprocess"
                    /\ UNCHANGED <<stdout, exit_code, result>>
    /\ UNCHANGED <<script, sys_argv, image_exists, tessdata, temp_files,
                   engine_langs, propagated>>
    /\ UNCHANGED notCli

\* Image.open .. img.save(temp_path); NamedTemporaryFile(delete=False) has
\* created the file when img.save raises
SimplePreprocess ==
    /\ At(SIMPLE, "preprocess")
    /\ \E saved \in {"ok", "open_raised", "save_raised"} :
         /\ temp_files' = IF saved \in {"ok", "save_raised"}
                          THEN temp_files \cup {SIMPLE_TEMP}
                          ELSE temp_files
         /\ IF saved = "ok"
            THEN /\ pc' = "engine"
                 /\ UNCHANGED result
            ELSE /\ result' = FailureText("Zpracovani selhalo")
                 /\ pc' = "print"
    /\ UNCHANGED <<script, sys_argv, image_exists, tessdata, language, stdout,
                   exit_code, engine_langs, propagated>>
    /\ UNCHANGED notCli

\* Popen, communicate, the result, os.unlink; an exception of Popen or of
\* os.unlink goes to the handler, which replaces the result
SimpleEngine ==
    /\ At(SIMPLE, "engine")
    /\ LET lang_param == LangParam(language) IN
       \/ /\ result' = FailureText("Zpracovani selhalo")
          /\ UNCHANGED <<temp_files, engine_langs>>
       \/ \E o \in EngineOutcomes(lang_param, tessdata), removed \in BOOLEAN :
            \E text \in SubprocessTexts(o) :
              /\ engine_langs' = engine_langs \cup {lang_param}
              /\ IF removed
                 THEN /\ temp_files' = temp_files \ {SIMPLE_TEMP}
                      /\ result' = SubprocessResult(o, text)
                 ELSE /\ temp_files' = temp_files
                      /\ result' = FailureText("Zpracovani selhalo")
    /\ pc' = "print"
    /\ UNCHANGED <<script, sys_argv, image_exists, tessdata, language, stdout,
                   exit_code, propagated>>
    /\ UNCHANGED notCli

SimplePrint ==
    /\ At(SIMPLE, "print")
    /\ Emit(Json(result))
    /\ Exit(0)
    /\ UNCHANGED <<script, sys_argv, image_exists, tessdata, language, result,
                   temp_files, engine_langs, propagated>>
    /\ UNCHANGED notCli

----------------------------------------------------------------------------
(* trocr.py: post_process_text.  A text is a sequence of characters. *)

\* the longest text given to post_process_text
MaxLen == 7

SectionSign == "section sign"

\* the characters of the texts: a letter the function keeps when it stands
\* alone, one it removes, the blank, and one of the symbols of
\* [§†‡¶©®™]; no quote, dash, digit or dot, so that the substitutions of
\* lines 455-459 and 467-470 find nothing, and no 'dení' or 'diary'
Chars == {"a", "b", " ", SectionSign}

\* \s
IsSpace(c) == c = " "

\* [bcdefghjklmnopqrstuvwxyz]
IsolatedLetters == {"b"}

\* [^\w\s\.\,\?\!]
IsSpecial(c) == c = SectionSign

\* [§†‡¶©®™]
RandomSymbols == {SectionSign}

\* the character at i stays in ' '.join(text.split()): it is no blank, or
\* it is the first blank after a word that another word follows
KeptBySplitJoin(s, i) ==
    \/ ~IsSpace(s[i])
    \/ /\ i > 1
       /\ ~IsSpace(s[i - 1])
       /\ \E j \in (i + 1)..Len(s) : ~IsSpace(s[j])

RECURSIVE SplitJoinFrom(_, _)
SplitJoinFrom(s, i) ==
    IF i > Len(s) THEN <<>>
    ELSE (IF KeptBySplitJoin(s, i) THEN <<s[i]>> ELSE <<>>)
         \o SplitJoinFrom(s, i + 1)

\* ' '.join(text.split())
SplitJoin(s) == SplitJoinFrom(s, 1)

\* the last index of the run of special characters that starts at i
RunEnd(s, i) ==
    CHOOSE j \in i..Len(s) :
        /\ \A k \in i..j : IsSpecial(s[k])
        /\ j = Len(s) \/ ~IsSpecial(s[j + 1])

\* re.sub(r'[^\w\s\.\,\?\!]{2,}', ' ', text), from index i on
RECURSIVE SquashSpecial(_, _)
SquashSpecial(s, i) ==
    IF i > Len(s) THEN <<>>
    ELSE IF IsSpecial(s[i]) /\ i < Len(s) /\ IsSpecial(s[i + 1])
    THEN <<" ">> \o SquashSpecial(s, RunEnd(s, i) + 1)
    ELSE <<s[i]>> \o SquashSpecial(s, i + 1)

\* re.sub(r'\s[bcdefghjklmnopqrstuvwxyz]\s', ' ', text), from index i on:
\* the matches are found from left to right and do not overlap
RECURSIVE RemoveIsolated(_, _)
RemoveIsolated(s, i) ==
    IF i > Len(s) THEN <<>>
    ELSE IF /\ i + 2 <= Len(s)
            /\ IsSpace(s[i])
            /\ s[i + 1] \in IsolatedLetters
            /\ IsSpace(s[i + 2])
    THEN <<" ">> \o RemoveIsolated(s, i + 3)
    ELSE <<s[i]>> \o RemoveIsolated(s, i + 1)

IsRandomSymbol(c) == c \in RandomSymbols

\* re.sub(r'[§†‡¶©®™]', '', text)
RemoveSymbols(s) == SelectSeq(s, LAMBDA c : ~IsRandomSymbol(c))

post_process_text(text) ==
    IF text = <<>> THEN <<>>
    ELSE RemoveSymbols(RemoveIsolated(SquashSpecial(SplitJoin(text), 1), 1))

Texts == UNION {[1..n -> Chars] : n \in 0..MaxLen}

\* a call of post_process_text(text)
PostProcess ==
    /\ pp_pc = "call"
    /\ pp_returned' = post_process_text(pp_text)
    /\ pp_pc' = "returned"
    /\ UNCHANGED pp_text
    /\ UNCHANGED notPost

\* no call of post_process_text is followed
PostIdle ==
    /\ pp_pc = "off"
    /\ pp_text = <<>>
    /\ pp_returned = <<>>

----------------------------------------------------------------------------
(* The HTTP servers: values *)

KRAKEN       == "kraken_api.py"
TROCR_SERVER == "trocr_server.py"

Servers == {KRAKEN, TROCR_SERVER}

MULTIPART == "multipart/form-data"

NoRequest  == [method |-> "none"]
NoPath     == [t |-> -1, name |-> ""]
NoResponse == [status |-> 0]

\* requests a server accepts before the model stops taking new ones
MaxRequests == 2

\* seconds the clock can advance
MaxClock == 1

Response(status, body) == [status |-> status, body |-> body]

\* POST /ocr requests, multipart: with or without the image field; the
\* uploaded file's name may be empty
OcrPosts ==
    {[method |-> "POST", path |-> "/ocr", content_type |-> MULTIPART,
      has_image |-> TRUE, filename |-> f, language |-> l] :
         f \in {"", "a.png"}, l \in {"eng", "ces"}}
    \cup
    {[method |-> "POST", path |-> "/ocr", content_type |-> MULTIPART,
      has_image |-> FALSE, filename |-> "", language |-> l] :
         l \in {"eng", "ces"}}

\* what else reaches trocr_server.py's handler
OtherRequests ==
    {[method |-> "GET", path |-> p, content_type |-> "", has_image |-> FALSE,
      filename |-> "", language |-> "eng"] : p \in {"/health", "/other"}}
    \cup
    {[method |-> "POST", path |-> "/other", content_type |-> MULTIPART,
      has_image |-> FALSE, filename |-> "", language |-> "eng"],
     [method |-> "POST", path |-> "/ocr", content_type |-> "application/json",
      has_image |-> FALSE, filename |-> "", language |-> "eng"]}

\* Flask routes only POST /ocr to ocr(); BaseHTTPRequestHandler hands every
\* GET and POST to the handler
Requests(srv) == IF srv = KRAKEN THEN OcrPosts ELSE OcrPosts \cup OtherRequests

Handling(srv, p) == server = srv /\ hpc = p

\* the handler is over: its response is sent, or an exception left it
Finish == hpc' = "done"

----------------------------------------------------------------------------
(* kraken_api.py *)

\* recognize_handwritten_text as ocr() sees it: every path returns a result
\* (its variant x psm x oem loop is not unfolded here)
KrakenRecognitionOutcomes ==
    {Failure("Failed to preprocess image"),
     Failure("Failed to recognize text with any configuration"),
     Failure("Handwritten text recognition failed: exc")}
    \cup {Success(t, c) : t \in SampleTexts, c \in SampleConfidences \cup {50}}

KrakenEarlyResponse_NoImageCheck(r) ==
    IF r.has_image /\ r.filename = ""
    THEN Response(400, Failure("Empty filename"))
    ELSE NoResponse

\* the two checks before the upload is saved: the response they return, or
\* NoResponse when the request passes
KrakenEarlyResponse(r) ==
    IF ~r.has_image
    THEN Response(400, Failure("No image file uploaded"))
    ELSE IF r.filename = ""
         THEN Response(400, Failure("Empty filename"))
         ELSE NoResponse

\* f"{int(time.time())}_{file.filename}" under tempfile.gettempdir()
KrakenTempPath(now, filename) == [t |-> now, name |-> filename]

KrakenCheck ==
    /\ Handling(KRAKEN, "accepted")
    /\ IF KrakenEarlyResponse(request) # NoResponse
       THEN /\ response' = KrakenEarlyResponse(request)
            /\ Finish
       ELSE /\ hpc' = "save"
            /\ UNCHANGED response
    /\ UNCHANGED <<server, clock, served, request, image_path, tmp_dir,
                   ocr_result, processor, model, ocr_calls, created,
                   handler_raised>>
    /\ UNCHANGED notHttp

\* file.save(image_path): it can raise before or after the file is there;
\* the endpoint's handler answers 500
KrakenSave ==
    /\ Handling(KRAKEN, "save")
    /\ image_path' = KrakenTempPath(clock, request.filename)
    /\ \E saved \in {"ok", "raised_no_file", "raised_file"} :
         /\ IF saved = "raised_no_file"
            THEN UNCHANGED <<tmp_dir, created>>
            ELSE /\ tmp_dir' = tmp_dir \cup {image_path'}
                 /\ created' = TRUE
         /\ IF saved = "ok"
            THEN /\ hpc' = "recognize"
                 /\ UNCHANGED response
            ELSE /\ response' = Response(500, Failure("exc"))
                 /\ Finish
    /\ UNCHANGED <<server, clock, served, request, ocr_result, processor,
                   model, ocr_calls, handler_raised>>
    /\ UNCHANGED notHttp

KrakenRecognize ==
    /\ Handling(KRAKEN, "recognize")
    /\ ocr_result' \in KrakenRecognitionOutcomes
    /\ ocr_calls' = ocr_calls + 1
    /\ hpc' = "cleanup"
    /\ UNCHANGED <<server, clock, served, request, image_path, tmp_dir,
                   response, processor, model, created, handler_raised>>
    /\ UNCHANGED notHttp

\* os.remove(image_path), its failure only logged; return jsonify(result)
KrakenCleanup ==
    /\ Handling(KRAKEN, "cleanup")
    /\ \E removed \in BOOLEAN :
         tmp_dir' = IF removed THEN tmp_dir \ {image_path} ELSE tmp_dir
    /\ response' = Response(200, ocr_result)
    /\ Finish
    /\ UNCHANGED <<server, clock, served, request, image_path, ocr_result,
                   processor, model, ocr_calls, created, handler_raised>>
    /\ UNCHANGED notHttp

----------------------------------------------------------------------------
(* trocr_server.py *)

TrocrConfidence == 95

\* initialize_model: the globals afterwards and what it returns; processor is
\* assigned before the model is loaded
InitializeModelOutcomes(p, m) ==
    {[processor |-> TRUE, model |-> TRUE, ok |-> TRUE],
     [processor |-> TRUE, model |-> m, ok |-> FALSE],
     [processor |-> p, model |-> m, ok |-> FALSE]}

\* recognize_text(image_path, language): the globals afterwards and the
\* result it returns
ServerRecognizeOutcomes(p, m) ==
    LET loaded == IF ~p \/ ~m
                  THEN InitializeModelOutcomes(p, m)
                  ELSE {[processor |-> p, model |-> m, ok |-> TRUE]}
    IN UNION {
         IF ~g.ok
         THEN {[processor |-> g.processor, model |-> g.model,
                result |-> FailureText("Model se nepodarilo inicializovat")]}
         ELSE {[processor |-> g.processor, model |-> g.model,
                result |-> FailureText("Chyba pri rozpoznavani textu: exc")]}
              \cup
              {[processor |-> g.processor, model |-> g.model,
                result |-> Success(t, TrocrConfidence)] :
                   t \in SampleTexts \cup {""}}
         : g \in loaded }

\* f"/tmp/trocr_temp_{os.getpid()}.png": one path per server process
TrocrTempPath == [t |-> 0, name |-> "trocr_temp_pid.png"]

ServerGet ==
    /\ Handling(TROCR_SERVER, "accepted")
    /\ request.method = "GET"
    /\ response' = IF request.path = "/health"
                   THEN Response(200, [status |-> "ok",
                                       message |-> "TrOCR server bezi"])
                   ELSE Response(404, [error |-> "Endpoint nenalezen",
                                       message |-> "use /ocr or /health"])
    /\ Finish
    /\ UNCHANGED <<server, clock, served, request, image_path, tmp_dir,
                   ocr_result, processor, model, ocr_calls, created,
                   handler_raised>>
    /\ UNCHANGED notHttp

\* 'image' in form
ServerHasImage(r) == r.has_image

ServerPost_NoTypeCheck ==
    /\ Handling(TROCR_SERVER, "accepted")
    /\ request.method = "POST"
    /\ IF request.path # "/ocr"
       THEN /\ response' = Response(404, [success |-> FALSE,
                                          error |-> "Endpoint nenalezen",
                                          message |-> "use /ocr"])
            /\ Finish
       ELSE IF ~ServerHasImage(request)
       THEN /\ response' = Response(400, Failure("Nebyl nahran zadny obrazek"))
            /\ Finish
       ELSE /\ hpc' = "save"
            /\ UNCHANGED response
    /\ UNCHANGED <<server, clock, served, request, image_path, tmp_dir,
                   ocr_result, processor, model, ocr_calls, created,
                   handler_raised>>
    /\ UNCHANGED notHttp

\* do_POST up to the image check
ServerPost ==
    /\ Handling(TROCR_SERVER, "accepted")
    /\ request.method = "POST"
    /\ IF request.path # "/ocr"
       THEN /\ response' = Response(404, [success |-> FALSE,
                                          error |-> "Endpoint nenalezen",
                                          message |-> "use /ocr"])
            /\ Finish
       ELSE IF request.content_type # MULTIPART
       THEN /\ response' = Response(415, Failure("Nepodporovany typ obsahu"))
            /\ Finish
       ELSE IF ~ServerHasImage(request)
       THEN /\ response' = Response(400, Failure("Nebyl nahran zadny obrazek"))
            /\ Finish
       ELSE /\ hpc' = "save"
            /\ UNCHANGED response
    /\ UNCHANGED <<server, clock, served, request, image_path, tmp_dir,
                   ocr_result, processor, model, ocr_calls, created,
                   handler_raised>>
    /\ UNCHANGED notHttp

\* with open(image_path, 'wb') as f: f.write(...): an exception leaves
\* do_POST, and the connection is closed without a response
ServerSave ==
    /\ Handling(TROCR_SERVER, "save")
    /\ image_path' = TrocrTempPath
    /\ \E saved \in {"ok", "raised_no_file", "raised_file"} :
         /\ IF saved = "raised_no_file"
            THEN UNCHANGED <<tmp_dir, created>>
            ELSE /\ tmp_dir' = tmp_dir \cup {image_path'}
                 /\ created' = TRUE
         /\ IF saved = "ok"
            THEN /\ hpc' = "recognize"
                 /\ UNCHANGED handler_raised
            ELSE /\ handler_raised' = TRUE
                 /\ Finish
    /\ UNCHANGED <<server, clock, served, request, ocr_result, response,
                   processor, model, ocr_calls>>
    /\ UNCHANGED notHttp

ServerRecognize ==
    /\ Handling(TROCR_SERVER, "recognize")
    /\ \E o \in ServerRecognizeOutcomes(processor, model) :
         /\ processor' = o.processor
         /\ model' = o.model
         /\ ocr_result' = o.result
    /\ ocr_calls' = ocr_calls + 1
    /\ hpc' = "cleanup"
    /\ UNCHANGED <<server, clock, served, request, image_path, tmp_dir,
                   response, created, handler_raised>>
    /\ UNCHANGED notHttp

\* if os.path.exists(image_path): os.remove(image_path), then the 200
\* response; os.remove that raises leaves do_POST
ServerCleanup ==
    /\ Handling(TROCR_SERVER, "cleanup")
    /\ \/ /\ tmp_dir' = tmp_dir \ {image_path}
          /\ response' = Response(200, ocr_result)
          /\ UNCHANGED handler_raised
       \/ /\ image_path \in tmp_dir
          /\ handler_raised' = TRUE
          /\ UNCHANGED <<tmp_dir, response>>
    /\ Finish
    /\ UNCHANGED <<server, clock, served, request, image_path, ocr_result,
                   processor, model, ocr_calls, created>>
    /\ UNCHANGED notHttp

----------------------------------------------------------------------------
(* trocr_server.py: the globals processor and model over the calls of
   recognize_text, one call at a time as HTTPServer makes them *)

\* calls of recognize_text the model follows
MaxCalls == 4

NeedsLoading_ProcessorOnly(p, m) == ~p

\* if processor is None or model is None
NeedsLoading(p, m) == ~p \/ ~m

\* a use of the globals: processor(images=...), model.generate(...),
\* processor.batch_decode(...)
Use(what) == [what |-> what, processor |-> ld_processor, model |-> ld_model]

RecognizeFails == FailureText("Chyba pri rozpoznavani textu: exc")

\* do_POST calls recognize_text(image_path, language)
LoadEnter ==
    /\ ld_pc \in {"idle", "returned"}
    /\ ld_calls < MaxCalls
    /\ ld_calls' = ld_calls + 1
    /\ ld_pc' = "check"
    /\ ld_entry' = (ld_processor /\ ld_model)
    /\ ld_attempted' = 0
    /\ ld_used' = {}
    /\ ld_result' = NoResult
    /\ UNCHANGED <<ld_processor, ld_model, initialize_calls>>
    /\ UNCHANGED notLoad

\* the check that the model was loaded, and initialize_model when it was not
LoadCheck ==
    /\ ld_pc = "check"
    /\ IF NeedsLoading(ld_processor, ld_model)
       THEN \E g \in InitializeModelOutcomes(ld_processor, ld_model) :
              /\ ld_processor' = g.processor
              /\ ld_model' = g.model
              /\ initialize_calls' = initialize_calls + 1
              /\ ld_attempted' = ld_attempted + 1
              /\ IF g.ok
                 THEN ld_pc' = "open" /\ UNCHANGED ld_result
                 ELSE /\ ld_pc' = "returned"
                      /\ ld_result' =
                            FailureText("Model se nepodarilo inicializovat")
       ELSE /\ ld_pc' = "open"
            /\ UNCHANGED <<ld_processor, ld_model, initialize_calls,
                           ld_attempted, ld_result>>
    /\ UNCHANGED <<ld_calls, ld_entry, ld_used>>
    /\ UNCHANGED notLoad

\* Image.open(image_path).convert("RGB"): it returns or raises
LoadOpen ==
    /\ ld_pc = "open"
    /\ \/ ld_pc' = "processor" /\ UNCHANGED ld_result
       \/ ld_pc' = "returned" /\ ld_result' = RecognizeFails
    /\ UNCHANGED <<ld_processor, ld_model, ld_calls, initialize_calls,
                   ld_entry, ld_attempted, ld_used>>
    /\ UNCHANGED notLoad

\* processor(images=image, return_tensors="pt"): calling None raises
LoadProcessor ==
    /\ ld_pc = "processor"
    /\ ld_used' = ld_used \cup {Use("processor")}
    /\ \/ ld_processor /\ ld_pc' = "generate" /\ UNCHANGED ld_result
       \/ ld_pc' = "returned" /\ ld_result' = RecognizeFails
    /\ UNCHANGED <<ld_processor, ld_model, ld_calls, initialize_calls,
                   ld_entry, ld_attempted>>
    /\ UNCHANGED notLoad

\* model.generate(pixel_values) and processor.batch_decode(...): an attribute
\* of None raises
LoadGenerate ==
    /\ ld_pc = "generate"
    /\ ld_used' = ld_used \cup {Use("generate"), Use("batch_decode")}
    /\ ld_pc' = "returned"
    /\ \/ /\ ld_processor /\ ld_model
          /\ \E t \in SampleTexts \cup {""} :
               ld_result' = Success(t, TrocrConfidence)
       \/ ld_result' = RecognizeFails
    /\ UNCHANGED <<ld_processor, ld_model, ld_calls, initialize_calls,
                   ld_entry, ld_attempted>>
    /\ UNCHANGED notLoad

LoadStart ==
    /\ ld_calls = 0
    /\ ld_entry = FALSE
    /\ ld_attempted = 0
    /\ ld_used = {}
    /\ ld_result = NoResult

\* no trocr_server.py model is followed
LoadIdle ==
    /\ ld_pc = "off"
    /\ ld_processor = FALSE
    /\ ld_model = FALSE
    /\ initialize_calls = 0
    /\ LoadStart

----------------------------------------------------------------------------
(* A server's life *)

\* ---- the servers with several connections open ----

\* connections a server has open
MaxInFlight == 2

Handlers == 1..MaxInFlight

IdleHandler == [pc |-> "idle", request |-> NoRequest, image_path |-> NoPath,
                read |-> -1, response |-> NoResponse, raised |-> FALSE]

\* kraken_api.py: app.run(host=..., port=...) starts werkzeug's development
\* server, which Flask runs with threaded=True unless told otherwise: each
\* request is handled in a thread of its own.  trocr_server.py: HTTPServer
\* has no threading mix-in: serve_forever handles a request to its end
\* before it accepts the next.
Threaded(srv) == srv = KRAKEN

Active(i) == handlers[i].pc \notin {"idle", "done"}

\* a handler that is over: its response is sent, or an exception left it
Over(h, resp, exc) == [h EXCEPT !.pc = "done", !.response = resp, !.raised = exc]

\* the server starts the handler of a POST /ocr request
HandlerBegin ==
    /\ \E i \in Handlers :
         /\ handlers[i].pc = "idle"
         /\ Threaded(sv_server) \/ \A j \in Handlers : ~Active(j)
         /\ \E r \in {q \in OcrPosts : q.language = "eng"} :
              handlers' = [handlers EXCEPT ![i] =
                              [@ EXCEPT !.pc = "accepted", !.request = r]]
    /\ UNCHANGED <<sv_server, sv_clock, disk>>
    /\ UNCHANGED notServe

\* the checks before the upload is saved, and the temp-file path
HandlerCheck ==
    /\ \E i \in Handlers :
         LET h == handlers[i]
             early == IF sv_server = KRAKEN THEN KrakenEarlyResponse(h.request)
                      ELSE IF ~ServerHasImage(h.request)
                      THEN Response(400, Failure("Nebyl nahran zadny obrazek"))
                      ELSE NoResponse
             path == IF sv_server = KRAKEN
                     THEN KrakenTempPath(sv_clock, h.request.filename)
                     ELSE TrocrTempPath
         IN /\ h.pc = "accepted"
            /\ handlers' = [handlers EXCEPT ![i] =
                              IF early # NoResponse THEN Over(h, early, FALSE)
                              ELSE [h EXCEPT !.pc = "save",
                                             !.image_path = path]]
    /\ UNCHANGED <<sv_server, sv_clock, disk>>
    /\ UNCHANGED notServe

\* the disk after handler i wrote its upload to path p
Written(p, i) == [q \in DOMAIN disk \cup {p} |-> IF q = p THEN i ELSE disk[q]]

\* the disk after path p was removed
Removed(p) == [q \in DOMAIN disk \ {p} |-> disk[q]]

\* file.save(image_path) / open(image_path, 'wb') and write: the file holds
\* this request's upload, or the write raises (kraken_api.py answers 500,
\* trocr_server.py's do_POST is left by the exception)
HandlerSave ==
    /\ \E i \in Handlers :
         LET h == handlers[i] IN
         /\ h.pc = "save"
         /\ \/ /\ disk' = Written(h.image_path, i)
               /\ handlers' = [handlers EXCEPT ![i].pc = "recognize"]
            \/ /\ UNCHANGED disk
               /\ handlers' = [handlers EXCEPT ![i] =
                     IF sv_server = KRAKEN
                     THEN Over(h, Response(500, Failure("exc")), FALSE)
                     ELSE Over(h, NoResponse, TRUE)]
    /\ UNCHANGED <<sv_server, sv_clock>>
    /\ UNCHANGED notServe

\* the recognition function opens image_path: it reads the upload the file
\* holds at that moment (0: there is no file), and returns a result
HandlerRecognize ==
    /\ \E i \in Handlers :
         LET h == handlers[i] IN
         /\ h.pc = "recognize"
         /\ handlers' = [handlers EXCEPT ![i] =
               [h EXCEPT !.pc = "cleanup",
                         !.read = IF h.image_path \in DOMAIN disk
                                  THEN disk[h.image_path] ELSE 0]]
    /\ UNCHANGED <<sv_server, sv_clock, disk>>
    /\ UNCHANGED notServe

\* os.remove(image_path) and the 200 response.  kraken_api.py logs a failed
\* removal; trocr_server.py removes only a path that exists, and a removal
\* that raises leaves do_POST
HandlerCleanup ==
    /\ \E i \in Handlers :
         LET h == handlers[i]
             ok == Response(200, [success |-> h.read = i])
         IN /\ h.pc = "cleanup"
            /\ \/ /\ disk' = Removed(h.image_path)
                  /\ handlers' = [handlers EXCEPT ![i] = Over(h, ok, FALSE)]
               \/ /\ h.image_path \in DOMAIN disk
                  /\ UNCHANGED disk
                  /\ handlers' = [handlers EXCEPT ![i] =
                        IF sv_server = KRAKEN THEN Over(h, ok, FALSE)
                        ELSE Over(h, NoResponse, TRUE)]
    /\ UNCHANGED <<sv_server, sv_clock>>
    /\ UNCHANGED notServe

ServeTick ==
    /\ sv_clock < MaxClock
    /\ sv_clock' = sv_clock + 1
    /\ UNCHANGED <<sv_server, handlers, disk>>
    /\ UNCHANGED notServe

ServeStart ==
    /\ sv_clock = 0
    /\ handlers = [i \in Handlers |-> IdleHandler]
    /\ disk = <<>>

\* no server with several connections runs
ServeIdle == sv_server = "none" /\ ServeStart

\* the next request is taken when the handler of the one before is over
Accept ==
    /\ hpc \in {"idle", "done"}
    /\ served < MaxRequests
    /\ \E r \in Requests(server) : request' = r
    /\ served' = served + 1
    /\ hpc' = "accepted"
    /\ image_path' = NoPath
    /\ ocr_result' = NoResult
    /\ response' = NoResponse
    /\ ocr_calls' = 0
    /\ created' = FALSE
    /\ handler_raised' = FALSE
    /\ UNCHANGED <<server, clock, tmp_dir, processor, model>>
    /\ UNCHANGED notHttp

Tick ==
    /\ clock < MaxClock
    /\ clock' = clock + 1
    /\ UNCHANGED <<server, served, request, hpc, image_path, tmp_dir,
                   ocr_result, response, processor, model, ocr_calls, created,
                   handler_raised>>
    /\ UNCHANGED notHttp

\* no server runs in a command-line run
HttpIdle ==
    /\ server = "none"
    /\ clock = 0
    /\ served = 0
    /\ request = NoRequest
    /\ hpc = "off"
    /\ image_path = NoPath
    /\ tmp_dir = {}
    /\ ocr_result = NoResult
    /\ response = NoResponse
    /\ processor = FALSE
    /\ model = FALSE
    /\ ocr_calls = 0
    /\ created = FALSE
    /\ handler_raised = FALSE

\* no script runs beside a server
CliIdle ==
    /\ script = "none"
    /\ sys_argv = <<>>
    /\ image_exists = FALSE
    /\ tessdata = {}
    /\ language = ""
    /\ pc = "off"
    /\ result = NoResult
    /\ stdout = <<>>
    /\ exit_code = -1
    /\ temp_files = {}
    /\ engine_langs = {}
    /\ propagated = FALSE

\* kraken_api.py: app.run; trocr_server.py: run_server, which calls
\* initialize_model() before serve_forever()
HttpInit ==
    /\ server \in Servers
    /\ clock = 0
    /\ served = 0
    /\ request = NoRequest
    /\ hpc = "idle"
    /\ image_path = NoPath
    /\ tmp_dir = {}
    /\ ocr_result = NoResult
    /\ response = NoResponse
    /\ IF server = TROCR_SERVER
       THEN \E g \in InitializeModelOutcomes(FALSE, FALSE) :
               processor = g.processor /\ model = g.model
       ELSE processor = FALSE /\ model = FALSE
    /\ ocr_calls = 0
    /\ created = FALSE
    /\ handler_raised = FALSE
    /\ CliIdle
    /\ SweepIdle
    /\ PoolIdle
    /\ ServeIdle
    /\ ConfigIdle
    /\ KrakenIdle
    /\ LoadIdle
    /\ PostIdle

HttpNext ==
    \/ Accept \/ Tick
    \/ KrakenCheck \/ KrakenSave \/ KrakenRecognize \/ KrakenCleanup
    \/ ServerGet \/ ServerPost \/ ServerSave \/ ServerRecognize \/ ServerCleanup

SpecHttp == HttpInit /\ [][HttpNext]_vars

----------------------------------------------------------------------------
(* A call of perform_handwriting_recognition *)

SweepInit ==
    /\ sw_pc = "start"
    /\ SweepStart
    /\ CliIdle
    /\ HttpIdle
    /\ PoolIdle
    /\ ServeIdle
    /\ ConfigIdle
    /\ KrakenIdle
    /\ LoadIdle
    /\ PostIdle

SweepNext ==
    \/ SweepBegin \/ SweepPreprocess \/ SweepAttempt \/ SweepAttemptRaises
    \/ SweepFinish

SpecSweep == SweepInit /\ [][SweepNext]_vars

----------------------------------------------------------------------------
(* A call of recognize_text_parallel *)

PoolInit ==
    /\ pl_pc = "map"
    /\ max_workers \in 1..MaxPool
    /\ task_outcome \in AttemptProfiles
    /\ PoolStart
    /\ CliIdle
    /\ HttpIdle
    /\ SweepIdle
    /\ ServeIdle
    /\ ConfigIdle
    /\ KrakenIdle
    /\ LoadIdle
    /\ PostIdle

PoolNext ==
    \/ WorkerStart \/ WorkerFinish \/ WorkerDies \/ Collect \/ Select

SpecPool == PoolInit /\ [][PoolNext]_vars

----------------------------------------------------------------------------
(* A server with several connections open *)

ServeInit ==
    /\ sv_server \in Servers
    /\ ServeStart
    /\ CliIdle
    /\ HttpIdle
    /\ SweepIdle
    /\ PoolIdle
    /\ ConfigIdle
    /\ KrakenIdle
    /\ LoadIdle
    /\ PostIdle

ServeNext ==
    \/ HandlerBegin \/ HandlerCheck \/ HandlerSave \/ HandlerRecognize
    \/ HandlerCleanup \/ ServeTick

SpecServe == ServeInit /\ [][ServeNext]_vars

----------------------------------------------------------------------------
(* A call of either sweep: trocr.py's or optimized_trocr.py's *)

SelectInit ==
    \/ SweepInit
    \/ PoolInit

SelectNext ==
    \/ SweepNext
    \/ PoolNext

SpecSelect == SelectInit /\ [][SelectNext]_vars

----------------------------------------------------------------------------
(* trocr_server.py's model from run_server on *)

\* processor = None, model = None at import; run_server calls
\* initialize_model() before serve_forever()
LoadInit ==
    /\ ld_pc = "idle"
    /\ \E g \in InitializeModelOutcomes(FALSE, FALSE) :
          ld_processor = g.processor /\ ld_model = g.model
    /\ initialize_calls = 1
    /\ LoadStart
    /\ CliIdle
    /\ HttpIdle
    /\ SweepIdle
    /\ PoolIdle
    /\ ServeIdle
    /\ ConfigIdle
    /\ KrakenIdle
    /\ PostIdle

LoadNext ==
    \/ LoadEnter \/ LoadCheck \/ LoadOpen \/ LoadProcessor \/ LoadGenerate

SpecLoad == LoadInit /\ [][LoadNext]_vars

----------------------------------------------------------------------------
(* A call of trocr.py's post_process_text *)

PostInit ==
    /\ pp_pc = "call"
    /\ pp_text \in Texts
    /\ pp_returned = <<>>
    /\ CliIdle
    /\ HttpIdle
    /\ SweepIdle
    /\ PoolIdle
    /\ ServeIdle
    /\ ConfigIdle
    /\ KrakenIdle
    /\ LoadIdle

PostNext == PostProcess

SpecPost == PostInit /\ [][PostNext]_vars

----------------------------------------------------------------------------
(* A call of trocr.py's recognize_text *)

ConfigInit ==
    /\ rt_pc = "loop"
    /\ ConfigStart
    /\ CliIdle
    /\ HttpIdle
    /\ SweepIdle
    /\ PoolIdle
    /\ ServeIdle
    /\ KrakenIdle
    /\ LoadIdle
    /\ PostIdle

ConfigNext ==
    \/ TryConfig \/ ReturnBest \/ BasicOcr

SpecConfigs == ConfigInit /\ [][ConfigNext]_vars

----------------------------------------------------------------------------
(* A call of kraken_api.py's recognize_handwritten_text *)

KrakenInit ==
    /\ kr_pc = "start"
    /\ kr_language \in {"eng", "ces"}
    /\ kr_tessdata \in {{"eng"}, {"eng", "ces"}}
    /\ KrakenStart
    /\ CliIdle
    /\ HttpIdle
    /\ SweepIdle
    /\ PoolIdle
    /\ ServeIdle
    /\ ConfigIdle
    /\ LoadIdle
    /\ PostIdle

KrakenNext ==
    \/ KrakenPreprocess \/ KrakenAttempt \/ KrakenFinish

SpecKraken == KrakenInit /\ [][KrakenNext]_vars

----------------------------------------------------------------------------
(* A command-line run *)

\* the command lines: script.py [image_path [language_code]]
CommandLines(s) ==
    {<<s>>, <<s, IMAGE_PATH>>} \cup {<<s, IMAGE_PATH, l>> : l \in LanguageCodes}

CliInit ==
    /\ script \in Scripts
    /\ sys_argv \in CommandLines(script)
    /\ image_exists \in BOOLEAN
    /\ tessdata \in SUBSET LanguageCodes
    /\ language = ""
    /\ pc = "start"
    /\ result = NoResult
    /\ stdout = <<>>
    /\ exit_code = -1
    /\ temp_files = {}
    /\ engine_langs = {}
    /\ propagated = FALSE
    /\ HttpIdle
    /\ SweepIdle
    /\ PoolIdle
    /\ ServeIdle
    /\ ConfigIdle
    /\ KrakenIdle
    /\ LoadIdle
    /\ PostIdle

CliNext ==
    \/ FallbackRun
    \/ LightOcrMain \/ LightOcrRecognize \/ LightOcrPrint
    \/ TrocrMain \/ TrocrRecognize \/ TrocrPrint
    \/ OptimizedMain \/ OptimizedRecognize \/ OptimizedPrint
    \/ RealCheckArgs \/ RealPreprocess \/ RealEngine \/ RealPrint
    \/ SimpleCheckArgs \/ SimplePreprocess \/ SimpleEngine \/ SimplePrint

SpecCli == CliInit /\ [][CliNext]_vars

----------------------------------------------------------------------------
(* Properties of the command-line runs and of the servers *)

JsonPrinted == {stdout[i].obj : i \in {j \in DOMAIN stdout : stdout[j].kind = "json"}}

RequestedLanguage == ArgLanguage(sys_argv)

IsOcrPost(r) == r.method = "POST" /\ r.path = "/ocr"

\* the two shapes of a result object
WellShaped(obj) ==
    /\ "success" \in DOMAIN obj
    /\ obj.success => {"text", "confidence"} \subseteq DOMAIN obj
    /\ ~obj.success => "error" \in DOMAIN obj

\* C1: a run of any of the six scripts that has exited has printed a JSON
\* object with a success flag, whatever the exit path.
C1_ExitedRunPrintedJson ==
    pc = "exit" => \E obj \in JsonPrinted : "success" \in DOMAIN obj

\* C2: every result object printed by a script or sent in answer to POST /ocr
\* has text and confidence when success is true and error when it is false.
C2_ResultShape ==
    /\ \A obj \in JsonPrinted : WellShaped(obj)
    /\ (IsOcrPost(request) /\ response # NoResponse) => WellShaped(response.body)

\* C3: a multipart POST /ocr without an image field is answered 400 with
\* success=false and an error, and neither server creates a temp file or
\* calls the recognition function for it.
C3_MissingImageIs400 ==
    (IsOcrPost(request) /\ request.content_type = MULTIPART /\ ~request.has_image)
    => /\ ~created /\ image_path = NoPath /\ ocr_calls = 0
       /\ hpc = "done" =>
            /\ ~handler_raised
            /\ response # NoResponse
            /\ response.status = 400
            /\ response.body.success = FALSE
            /\ "error" \in DOMAIN response.body

C3_Witness ==
    /\ hpc = "done" /\ served = 2
    /\ IsOcrPost(request) /\ request.content_type = MULTIPART
    /\ ~request.has_image
    /\ response # NoResponse /\ response.status = 400

\* C4: when the handling of a POST /ocr request is over, the temp file the
\* request created no longer exists.
C4_TempFileGoneAfterRequest ==
    (hpc = "done" /\ created) => image_path \notin tmp_dir

\* C5: when real_trocr.py or simple_trocr.py has exited, the preprocessed
\* temp file it wrote is deleted.
C5_TempFileGoneAtExit ==
    (pc = "exit" /\ script \in {REAL, SIMPLE}) => temp_files = {}

\* C6: fallback_trocr.py prints exactly one result, with success=true,
\* confidence 0.85 and no error, for every command line; its text is from the
\* Czech list exactly when the language argument is 'ces', and from the
\* English list otherwise.
C6_FallbackNeverFails ==
    script = FALLBACK =>
      /\ pc \in {"start", "exit"}
      /\ ~propagated
      /\ pc = "exit" =>
           /\ exit_code = 0
           /\ Len(stdout) = 1
           /\ stdout[1].kind = "json"
           /\ LET obj == stdout[1].obj
                  ces == Len(sys_argv) > 2 /\ sys_argv[3] = "ces"
              IN /\ obj.success = TRUE
                 /\ obj.confidence = 85
                 /\ "error" \notin DOMAIN obj
                 /\ obj.text \in Range(czech_texts) <=> ces
                 /\ obj.text \in Range(english_texts) <=> ~ces

C6_Witness ==
    /\ script = FALLBACK /\ pc = "exit"
    /\ Len(sys_argv) > 2 /\ sys_argv[3] = "ces"
    /\ ~image_exists
    /\ stdout[1].obj.text \in Range(czech_texts)

\* C7: no recognition entry point lets an exception reach its caller.
C7_NoExceptionLeavesRecognition == ~propagated

\* C8: every POST /ocr request with an image field gets a response whose body
\* is a result object with a success flag.
C8_ImageRequestAnswered ==
    (hpc = "done" /\ IsOcrPost(request) /\ request.has_image)
    => /\ response # NoResponse
       /\ "success" \in DOMAIN response.body

\* C9: a script that invokes the engine passes 'eng' when the requested
\* language is not 'eng' and has no training data, and the requested language
\* otherwise.
C9_MissingDataFallsBackToEng ==
    \A l \in engine_langs :
       IF RequestedLanguage # "eng" /\ RequestedLanguage \notin tessdata
       THEN l = "eng"
       ELSE l = RequestedLanguage

\* C10: the attempt perform_handwriting_recognition keeps (its text before
\* post-processing, its confidence, best_variant/best_orientation) has the
\* highest quality_score of all 40 attempts.
C10_KeepsHighestScore ==
    (sw_pc = "done" /\ sw_result.success)
    => /\ sw_result.confidence = best_confidence
       /\ sw_result.text = [post_process_text |-> best_text]
       /\ FracGe(QualityScore(best_text, best_confidence),
                 QualityScore(top.text, top.confidence))

----------------------------------------------------------------------------
(* Properties of recognize_text_parallel *)

\* the tuple recognize_text_parallel returns when the best result is r
ReturnOf(r) ==
    [text |-> PostProcessed(r.text), confidence |-> r.confidence,
     variant |-> r.variant, orientation |-> r.orientation]

\* the tasks whose quality_score no task exceeds
MaximalTasks == {t \in Tasks : \A u \in Tasks :
                    FracGe(futures[t].quality_score, futures[u].quality_score)}

\* C11: recognize_text_parallel returns the post-processed text, the
\* confidence, the variant and the orientation of an attempt whose
\* quality_score is maximal among the 10 attempts, and of the earliest such
\* attempt in task order when several tie.
C11_ReturnsEarliestMaximalAttempt ==
    pl_pc = "done"
    => /\ Len(tasks) = 10
       /\ \E t \in MaximalTasks :
            /\ returned = ReturnOf(futures[t])
            /\ \A u \in MaximalTasks : t <= u

\* a finished call in which several attempts with words tie for the maximum,
\* none of them the first task, and another attempt with words scores lower
C11_Witness ==
    /\ pl_pc = "done"
    /\ Cardinality(MaximalTasks) >= 2
    /\ returned.text # EmptyText
    /\ \E u \in Tasks \ MaximalTasks : futures[u].text # EmptyText
    /\ \E t \in MaximalTasks : /\ t > 1
                                /\ \A u \in MaximalTasks : t <= u
                                /\ returned = ReturnOf(futures[t])

C13_SchedulingIndependent ==
    pl_pc = "done"
    => returned =
         BestResult([t \in Tasks |-> process_image_variant(t, task_outcome[t])])

\* a finished call of a pool of several workers in which a task finished
\* before an earlier one and several attempts with words tie for the maximum
C13_Witness ==
    /\ pl_pc = "done"
    /\ max_workers > 1
    /\ overtaken
    /\ Cardinality(MaximalTasks) > 1
    /\ returned.text # EmptyText

----------------------------------------------------------------------------
(* Properties of the servers with several connections open *)

\* handler j has removed its temp file and produced its response
Settled(j) ==
    /\ handlers[j].response # NoResponse
    /\ handlers[j].image_path \notin DOMAIN disk

\* C14: each of the two servers processes at most one /ocr request at a
\* time: while a handler is active, every other request the server has begun
\* is over, with its temp file removed and its response produced.
C14_OneRequestAtATime ==
    \A i \in Handlers :
        Active(i) => \A j \in Handlers \ {i} :
                        \/ handlers[j].pc = "idle"
                        \/ handlers[j].pc = "done" /\ Settled(j)

----------------------------------------------------------------------------
(* Properties of what the scripts emit *)

\* C15: a script prints a result with success = true only after an OCR
\* engine or model invocation for its input has been made and has returned.
C15_SuccessOnlyAfterRecognition ==
    \A obj \in JsonPrinted :
        ("success" \in DOMAIN obj /\ obj.success) => engine_langs # {}

\* the positions of the JSON objects in what a run printed
JsonIndexes == {i \in DOMAIN stdout : stdout[i].kind = "json"}

\* C16: no command-line run prints more than one JSON result object; a run
\* that exits early exits right after printing its failure result, so the
\* final print of the result is not reached.
C16_AtMostOneJson ==
    /\ Cardinality(JsonIndexes) <= 1
    /\ (exit_code = 1 /\ JsonIndexes # {})
       => /\ stdout[Len(stdout)].kind = "json"
          /\ ~stdout[Len(stdout)].obj.success

\* a run of real_trocr.py that ended at its preprocessing failure
C16_Witness ==
    /\ script = REAL
    /\ pc = "exit"
    /\ exit_code = 1
    /\ JsonPrinted = {FailureText("Chyba pri predzpracovani obrazu")}
    /\ Cardinality(JsonIndexes) = 1

----------------------------------------------------------------------------
(* Properties of the sweeps' best_variant and best_orientation *)

\* C17: best_variant and best_orientation identify an attempt that was run
\* and whose text is the one returned.  trocr.py: they are set only to the
\* variant and orientation of the attempt just made, together with its
\* text, and on success they are in 0..9 and {0, 90, 180, 270}, not None.
\* optimized_trocr.py: they are in {0, 2, 5, 7, 10} and {0, 270}, and the
\* tuple returned is the one of that task's finished attempt.
C17_BestComboIdentifiesAttempt ==
    /\ [][(best_combo' # best_combo \/ best_text' # best_text)
          => /\ best_combo' = <<last_attempt'.variant, last_attempt'.orientation>>
             /\ best_text' = last_attempt'.text
             /\ last_attempt' # last_attempt]_vars
    /\ []((sw_pc = "done" /\ sw_result.success)
          => /\ sw_result.best_variant \in 0..9
             /\ sw_result.best_orientation \in {0, 90, 180, 270}
             /\ <<sw_result.best_variant, sw_result.best_orientation>> = best_combo
             /\ sw_result.text = [post_process_text |-> best_text])
    /\ [](pl_pc = "done"
          => /\ returned.variant \in {0, 2, 5, 7, 10}
             /\ returned.orientation \in {0, 270}
             /\ \E t \in Tasks :
                  /\ tasks[t] = <<returned.variant, returned.orientation>>
                  /\ futures[t] # NoFuture
                  /\ returned = ReturnOf(futures[t]))

\* a successful trocr.py sweep whose best attempt is not the first one
C17_Witness_Sweep ==
    /\ sw_pc = "done"
    /\ sw_result.success
    /\ sw_result.best_variant > 0
    /\ sw_result.best_orientation > 0

\* a call of recognize_text_parallel that returned a text of an attempt
\* other than the first one
C17_Witness_Pool ==
    /\ pl_pc = "done"
    /\ returned.text # EmptyText
    /\ returned.variant > 0
    /\ returned.orientation > 0

\* a finished call of either sweep whose best attempt is not the first one
C17_Witness == C17_Witness_Sweep \/ C17_Witness_Pool

----------------------------------------------------------------------------
(* Properties of trocr.py's recognize_text *)

\* the configurations that produced at least one word
WithWords == {i \in DOMAIN tried : ~tried[i].raises /\ tried[i].text # EmptyText}

\* C18: recognize_text returns the text and confidence of a configuration
\* whose quality_score is the maximum among the configurations that
\* produced at least one word; a configuration that raised or produced no
\* words is never the selected one.
C18_ReturnsBestConfiguration ==
    /\ best_config # 0 => best_config \in WithWords
    /\ (rt_pc = "done" /\ WithWords # {})
       => \E i \in WithWords :
            /\ rt_returned = [text |-> tried[i].text,
                              confidence |-> tried[i].confidence]
            /\ \A j \in WithWords :
                 FracGe(ConfigQualityScore(tried[i].text, tried[i].confidence),
                        ConfigQualityScore(tried[j].text, tried[j].confidence))

----------------------------------------------------------------------------
(* Properties of kraken_api.py's recognize_handwritten_text *)

\* C19: after all variant x PSM x OEM attempts, the confidence returned is
\* at least the highest confidence of any attempt minus 0.1.
C19_ConfidenceNearMaximum ==
    (kr_pc = "done" /\ kr_result.success)
    => kr_result.confidence >= max_confidence - 10

\* C20: recognize_handwritten_text returns success = true whenever an
\* attempt produced a non-empty text, and the failure 'Failed to recognize
\* text with any configuration' only when every attempt raised or produced
\* an empty text.
C20_SuccessIffSomeText ==
    kr_pc = "done"
    => /\ (some_text => kr_result.success)
       /\ (kr_result = Failure("Failed to recognize text with any configuration")
           => ~some_text)

----------------------------------------------------------------------------
(* Properties of the temp files of requests in flight *)

\* handler i has chosen its temp-file path and has not yet answered
HoldsPath(i) == handlers[i].pc \in {"save", "recognize", "cleanup"}

\* C21: two POST /ocr requests in flight at the same time, or arriving
\* within the same second with the same upload filename, never use the same
\* temp-file path; so the file a request's recognition opens is the one that
\* request wrote, never one overwritten or removed by another request.
C21_TempPathsDistinct ==
    /\ \A i \in Handlers : \A j \in Handlers \ {i} :
          (HoldsPath(i) /\ HoldsPath(j))
          => handlers[i].image_path # handlers[j].image_path
    /\ \A i \in Handlers : handlers[i].read \in {-1, i}

----------------------------------------------------------------------------
(* Properties of trocr_server.py's model loading *)

\* C22: in trocr_server.py the model is never used before it is loaded: the
\* processor and model.generate are invoked only when both globals are set.
\* A call that begins with one of them unset re-attempts initialize_model
\* first; when that fails the call returns the failure 'Model se nepodarilo
\* inicializovat' without attempting recognition.  Once both are loaded they
\* stay loaded and no later call calls initialize_model.
C22_ModelLoadedBeforeUse ==
    /\ [](\A u \in ld_used : u.processor /\ u.model)
    /\ []((ld_pc \in {"open", "processor", "generate"} /\ ~ld_entry)
          => (ld_attempted = 1 /\ ld_processor /\ ld_model))
    /\ []((ld_pc = "returned" /\ ld_attempted > 0
                              /\ ~(ld_processor /\ ld_model))
          => /\ ld_result = FailureText("Model se nepodarilo inicializovat")
             /\ ld_used = {})
    /\ [][(ld_processor /\ ld_model)
          => /\ ld_processor' /\ ld_model'
             /\ initialize_calls' = initialize_calls]_vars

\* the server started without its model, a first call loaded it, and a
\* later call recognised text with the model it found loaded
C22_Witness ==
    /\ ld_calls >= 2
    /\ initialize_calls = 2
    /\ ld_entry
    /\ ld_pc = "returned"
    /\ ld_result.success = TRUE
    /\ Use("generate") \in ld_used

----------------------------------------------------------------------------
(* Properties of trocr_server.py's routing *)

\* the requests do_GET and do_POST turn away before the form is read
TurnedAway(r) ==
    \/ r.method = "GET"
    \/ r.method = "POST" /\ r.path # "/ocr"
    \/ r.method = "POST" /\ r.path = "/ocr" /\ r.content_type # MULTIPART

\* C23: trocr_server.py answers GET /health with 200 and status 'ok', any
\* other GET path with 404, a POST to a path other than /ocr with 404 and a
\* POST /ocr whose Content-Type is not multipart/form-data with 415; none of
\* these requests creates a temp file or invokes the model.
C23_ServerRouting ==
    (server = TROCR_SERVER /\ TurnedAway(request))
    => /\ ~created /\ image_path = NoPath /\ ocr_calls = 0
       /\ ocr_result = NoResult
       /\ hpc = "done" =>
            /\ ~handler_raised
            /\ response # NoResponse
            /\ response.status =
                 IF request.method = "GET"
                 THEN (IF request.path = "/health" THEN 200 ELSE 404)
                 ELSE (IF request.path # "/ocr" THEN 404 ELSE 415)
            /\ (request.method = "GET" /\ request.path = "/health")
               => response.body.status = "ok"

\* a POST /ocr with a JSON body was answered 415 after an earlier request
C23_Witness ==
    /\ server = TROCR_SERVER
    /\ served = 2
    /\ hpc = "done"
    /\ request.method = "POST" /\ request.path = "/ocr"
    /\ request.content_type # MULTIPART
    /\ response # NoResponse /\ response.status = 415

----------------------------------------------------------------------------
(* Properties of the failures of trocr.py's sweep *)

\* C25: in perform_handwriting_recognition a failure is not isolated per
\* attempt: when preprocessing a variant raises, the sweep ends at once and
\* the result is success = false with the exception's message, whatever the
\* earlier attempts produced; no later variant is tried.
C25_PreprocessFailureEndsSweep ==
    [][sw_pc = "preprocess"
       => \/ /\ sw_pc' = "attempt"
             /\ variant' = variant
          \/ /\ sw_pc' = "done"
             /\ sw_result' = Failure("exc")
             /\ variant' = variant
             /\ last_attempt' = last_attempt]_vars

\* preprocessing the third variant raised after the attempts of the first
\* two had produced a text that was kept as the best one
C25_Witness ==
    /\ sw_pc = "done"
    /\ sw_result = Failure("exc")
    /\ variant = 2
    /\ last_attempt.variant = 1
    /\ last_attempt.orientation = 270
    /\ best_text # EmptyText
    /\ best_combo # NoCombo

----------------------------------------------------------------------------
(* Properties of the servers' status codes *)

\* the request carries an image and reached the recognition function, which
\* returned
RecognitionReturned ==
    /\ IsOcrPost(request) /\ request.content_type = MULTIPART
    /\ request.has_image
    /\ ocr_result # NoResult

\* C24: for a POST /ocr request that carries an image the status does not
\* reflect the recognition outcome: both servers answer 200 whenever the
\* recognition function returned, with success true or false; kraken_api.py
\* answers 400 only for a missing image field or an empty filename and 500
\* only when the endpoint itself raised.
C24_StatusIgnoresOutcome ==
    hpc = "done"
    => /\ RecognitionReturned
          => /\ response # NoResponse
             /\ response.status = 200
             /\ response.body = ocr_result
       /\ (server = KRAKEN /\ response.status = 400)
          => (~request.has_image \/ request.filename = "")
       /\ (server = KRAKEN /\ response.status = 500)
          => (ocr_result = NoResult /\ response.body = Failure("exc"))

----------------------------------------------------------------------------
(* Properties of the fallbacks of kraken_api.py's recognition *)

\* (variant, psm, oem) attempts to make over the images at hand
AttemptsDue == preprocessed_variants * Len(psm_modes) * Len(oem_modes)

\* C26: recognize_handwritten_text falls back in order: when the adaptive
\* preprocessing returns no image, the image of the basic preprocessing is
\* the single variant; only when the basic preprocessing returns nothing
\* too is the result the failure 'Failed to preprocess image', and then the
\* OCR engine is never invoked.  An exception in one OCR attempt does not
\* keep the remaining (variant, psm, oem) attempts from being tried.
C26_PreprocessFallbackOrder ==
    kr_pc # "start"
    => /\ adaptive > 0
          => (basic = "not called" /\ preprocessed_variants = adaptive)
       /\ (adaptive = 0 /\ basic = "image") => preprocessed_variants = 1
       /\ kr_result = Failure("Failed to preprocess image")
          <=> (adaptive = 0 /\ basic = "None")
       /\ kr_result = Failure("Failed to preprocess image")
          => engine_calls = 0
       /\ (kr_pc \in {"finish", "done"} /\ basic # "raised")
          => engine_calls = AttemptsDue

\* the adaptive preprocessing returned nothing, the basic image was used,
\* an attempt on it raised, and all four attempts were made and led to text
C26_Witness ==
    /\ kr_pc = "done"
    /\ adaptive = 0
    /\ basic = "image"
    /\ kr_raised
    /\ engine_calls = 4
    /\ kr_result.success = TRUE

----------------------------------------------------------------------------
(* Properties of the language the scripts hand to the engine *)

\* C27: in optimized_trocr.py, real_trocr.py and simple_trocr.py the
\* language passed to the engine is 'ces+eng' exactly when the requested
\* language is 'ces', and the requested language unchanged for every other
\* value, the default 'eng' of a run without language argument included.
C27_CzechAddsEnglish ==
    script \in {OPTIMIZED, REAL, SIMPLE}
    => \A l \in engine_langs :
          /\ l = "ces+eng" <=> RequestedLanguage = "ces"
          /\ RequestedLanguage # "ces" => l = RequestedLanguage
          /\ Len(sys_argv) = 2 => l = "eng"

\* a run asked for 'ces', invoked the engine with 'ces+eng' and printed its
\* result
C27_Witness ==
    /\ script \in {OPTIMIZED, REAL, SIMPLE}
    /\ Len(sys_argv) = 3
    /\ sys_argv[3] = "ces"
    /\ engine_langs = {"ces+eng"}
    /\ exit_code = 0
    /\ result # NoResult

----------------------------------------------------------------------------
(* Properties of trocr.py's post_process_text *)

\* the indexes of s where a letter of the removed class stands alone between
\* two whitespace characters
IsolatedAt(s) ==
    {i \in 2..(Len(s) - 1) :
        IsSpace(s[i - 1]) /\ s[i] \in IsolatedLetters /\ IsSpace(s[i + 1])}

\* C28: post_process_text removes isolated characters as its comment says:
\* the text returned holds no single lowercase letter other than 'a' or 'i'
\* standing alone between two whitespace characters, and the empty text is
\* returned for the empty text.
C28_NoIsolatedLetterLeft ==
    pp_pc = "returned"
    => /\ IsolatedAt(pp_returned) = {}
       /\ pp_text = <<>> => pp_returned = <<>>

====
